---------------------------- MODULE Spec2Model ----------------------------
(***************************************************************************)
(* Verification model of the wBus transit-map client core:                 *)
(*   - geo math (snapPointToPolyline, bearings, distances)                 *)
(*   - the Snap Engine (getSnappedPosition)                                *)
(*   - the Motion Animator (useAnimatedPosition hook)                      *)
(*   - the CacheManager (getOrFetch with request de-duplication, LRU)      *)
(*                                                                         *)
(* Coordinates are pairs <<lat, lng>> of integers.  One unit is 1/111000   *)
(* of a degree, taken next to the equator, so that one unit is one metre   *)
(* of getApproxDistanceMeters.  Floating point arithmetic is modelled as   *)
(* fixed point arithmetic on these units: a division rounds down.          *)
(* Optional values (number | null) are <<>> for null and <<n>> for n.      *)
(* Segment and vertex indices are 0-based as in the source; the vertex of  *)
(* index i of a polyline is line[i + 1].                                   *)
(*                                                                         *)
(* A value that the source binds once and reads several times is bound as  *)
(* the parameter of a local operator (LET F(x) == ... IN F(e)).            *)
(***************************************************************************)
EXTENDS Integers, Sequences, FiniteSets, TLC

VARIABLES
    \* ---- Snap Engine (one getSnappedPosition call) ----
    snapIn,        \* the arguments of the call
    snapOut,       \* <<>> before the call, <<result>> after it
    \* ---- Motion Animator (one mounted useAnimatedPosition hook) ----
    props,         \* the hook's arguments of the last render
    rendered,      \* useState: the last emitted {position, angle}
    refs,          \* the useRef cells of the hook
    frames,        \* callbacks pending in requestAnimationFrame
    nextFrameId,   \* the id the next requestAnimationFrame call returns
    hasCleanup,    \* the main effect's last run returned a cleanup
    mounted,       \* "rendered" (before the first commit), "mounted", "unmounted"
    clock,         \* performance.now()
    marker,        \* the Leaflet marker: {position, angle}, written directly
    obs,           \* ghost: what the last step did
    \* ---- CacheManager ----
    cache,         \* Map key -> value
    accessTimes,   \* Map key -> Date.now() of the last access
    accessOrder,   \* insertion order of accessTimes' keys
    pendingRequests, \* Map key -> promise id
    inflight,      \* producer invocations whose promise chain has not ended
    nextReq,       \* id of the next producer invocation
    dateNow,       \* Date.now()
    lastUse,       \* ghost: the cached keys, least recently accessed first
    cobs,          \* ghost: what the last cache step did
    \* ---- Direction Resolver (one mounted useBusDirection hook) ----
    dirRoute,      \* the routeName argument of the last render
    dirState,      \* useState: isReady and routeState
    dirFn,         \* the state the last render's getDirection closes over
    dirEffect,     \* the load effect of the last render has not run yet
    dirLoads,      \* loadData calls that have not returned
    dirRenders,    \* renders so far
    dirOut,        \* <<>>, or the last getDirection call and its result
    \* ---- BusPollingService ----
    pollCache,     \* this.cache: route -> the stored fix-set
    pollListeners, \* route -> a subscriber is registered
    pollIntervals, \* the routes with a polling interval
    pollFetches,   \* fetchAndUpdate calls that have not returned
    pollIssued,    \* fetchAndUpdate calls issued so far
    pollObs,       \* ghost: the last delivery to a subscriber
    \* ---- One call of a pure function (polyline transform, swap heuristic,
    \*      windowed nearest-point search) ----
    fnIn,          \* the arguments of the call
    fnOut          \* <<>> before the call, <<result>> after it

snapVars  == <<snapIn, snapOut>>
animVars  == <<props, rendered, refs, frames, nextFrameId, hasCleanup,
               mounted, clock, marker, obs>>
cacheVars == <<cache, accessTimes, accessOrder, pendingRequests, inflight,
               nextReq, dateNow, lastUse, cobs>>
dirVars   == <<dirRoute, dirState, dirFn, dirEffect, dirLoads, dirRenders, dirOut>>
pollVars  == <<pollCache, pollListeners, pollIntervals, pollFetches, pollIssued, pollObs>>
fnVars    == <<fnIn, fnOut>>
vars      == <<snapVars, animVars, cacheVars, dirVars, pollVars, fnVars>>

----------------------------------------------------------------------------
(* Small helpers *)

None == <<>>
Some(x) == <<x>>
IsSome(o) == o # <<>>
Val(o) == o[1]

Min(a, b) == IF a < b THEN a ELSE b
Max(a, b) == IF a > b THEN a ELSE b
Abs(a) == IF a < 0 THEN 0 - a ELSE a

\* Math.sqrt on the fixed point grid: the integer square root.
ISqrt(n) == CHOOSE r \in 0..(n + 1) : r * r <= n /\ (r + 1) * (r + 1) > n

----------------------------------------------------------------------------
(* geoUtils.ts *)

getEuclideanDistance(P, Q) ==
    ISqrt((P[1] - Q[1]) * (P[1] - Q[1]) + (P[2] - Q[2]) * (P[2] - Q[2]))

\* Bearing in whole degrees, 0 = north (lat grows), 90 = east (lng grows).
\* Exact for axis-parallel and diagonal moves, within a few degrees
\* otherwise (atan is interpolated linearly inside each octant).
\* atan2(0, 0) = 0, so the bearing between equal points is 0.
calculateBearing(A, B) ==
    LET Quadrant(dLat, dLng, th) ==
            IF dLat >= 0 /\ dLng >= 0 THEN th
            ELSE IF dLat < 0 /\ dLng >= 0 THEN 180 - th
            ELSE IF dLat < 0 /\ dLng < 0 THEN 180 + th
            ELSE (360 - th) % 360
        Octant(a, b) ==
            IF a = 0 /\ b = 0 THEN 0
            ELSE IF b <= a THEN (45 * b) \div a
            ELSE 90 - ((45 * a) \div b)
    IN  Quadrant(B[1] - A[1], B[2] - A[2],
                 Octant(Abs(B[1] - A[1]), Abs(B[2] - A[2])))

clampIndex(value, max) == Max(0, Min(value, max))

\* One iteration of the scan of snapPointToPolyline: the projection of
\* point onto segment i.  t is kept as the fraction tNum / tDen.
ProjectOnSegment(point, line, i) ==
    LET At(A, B, tNum, tDen, projX, projY) ==
            [position |-> <<projX, projY>>,
             dSq |-> (point[1] - projX) * (point[1] - projX)
                       + (point[2] - projY) * (point[2] - projY),
             idx |-> i, tNum |-> tNum, tDen |-> tDen, A |-> A, B |-> B]
        Clamped(A, B, ABx, ABy, tNum, tDen) ==
            At(A, B, tNum, tDen,
               A[1] + ((ABx * tNum) \div tDen), A[2] + ((ABy * tNum) \div tDen))
        Dot(A, B, ABx, ABy, ab2, dot) ==
            Clamped(A, B, ABx, ABy,
                    IF ab2 > 0 THEN Max(0, Min(ab2, dot)) ELSE 0,
                    IF ab2 > 0 THEN ab2 ELSE 1)
        Segment(A, B, APx, APy, ABx, ABy) ==
            Dot(A, B, ABx, ABy, ABx * ABx + ABy * ABy, APx * ABx + APy * ABy)
        Ends(A, B) ==
            Segment(A, B, point[1] - A[1], point[2] - A[2], B[1] - A[1], B[2] - A[2])
    IN  Ends(line[i + 1], line[i + 2])

\* The scan keeps the first segment of the window with the least distance
\* (dSq < bestDistSq is strict).
RECURSIVE ScanBest(_, _, _, _, _)
ScanBest(point, line, i, endIdx, best) ==
    IF i > endIdx THEN best
    ELSE LET Keep(c) ==
                 ScanBest(point, line, i + 1, endIdx,
                          IF best = None \/ c.dSq < Val(best).dSq THEN Some(c) ELSE best)
         IN  Keep(ProjectOnSegment(point, line, i))

\* A plausible slip: the window opens at the hint instead of radius
\* segments before it.
snapPointToPolyline_forwardOnly(point, line, hint, searchRadius) ==
    IF Len(line) < 2
    THEN [position |-> <<point[1], point[2]>>, angle |-> 0,
          segmentIndex |-> 0, tNum |-> 0, tDen |-> 1]
    ELSE LET Out(best) ==
                 [position |-> best.position,
                  angle |-> calculateBearing(best.A, best.B),
                  segmentIndex |-> best.idx,
                  tNum |-> best.tNum, tDen |-> best.tDen]
             Window(lastSegment, hasHint, radius, clampedHint) ==
                 Out(Val(ScanBest(point, line,
                        IF hasHint THEN clampedHint ELSE 0,
                        IF hasHint THEN clampIndex(clampedHint + radius, lastSegment)
                        ELSE lastSegment,
                        None)))
         IN  Window(Len(line) - 2, IsSome(hint),
                    Max(0, IF IsSome(searchRadius) THEN Val(searchRadius) ELSE 0),
                    IF IsSome(hint) THEN clampIndex(Val(hint), Len(line) - 2) ELSE 0)

\* hint: None (null/undefined) or Some(segment); searchRadius: None or Some(n).
snapPointToPolyline(point, line, hint, searchRadius) ==
    IF Len(line) < 2
    THEN [position |-> <<point[1], point[2]>>, angle |-> 0,
          segmentIndex |-> 0, tNum |-> 0, tDen |-> 1]
    ELSE LET Out(best) ==
                 [position |-> best.position,
                  angle |-> calculateBearing(best.A, best.B),
                  segmentIndex |-> best.idx,
                  tNum |-> best.tNum, tDen |-> best.tDen]
             Window(lastSegment, hasHint, radius, clampedHint) ==
                 Out(Val(ScanBest(point, line,
                        IF hasHint THEN clampIndex(clampedHint - radius, lastSegment) ELSE 0,
                        IF hasHint THEN clampIndex(clampedHint + radius, lastSegment)
                        ELSE lastSegment,
                        None)))
         IN  Window(Len(line) - 2, IsSome(hint),
                    Max(0, IF IsSome(searchRadius) THEN Val(searchRadius) ELSE 0),
                    IF IsSome(hint) THEN clampIndex(Val(hint), Len(line) - 2) ELSE 0)

\* getApproxDistanceMeters, squared: next to the equator lngScale is 1 and
\* one unit is one metre (111000 m per degree).
ApproxDistanceMetersSq(p1, p2) ==
    (p2[1] - p1[1]) * (p2[1] - p1[1]) + (p2[2] - p1[2]) * (p2[2] - p1[2])

\* The square of getHaversineDistanceMeters in squared units; two
\* distances compare as their squares do.
HaversineDistSq(p1, p2) ==
    (p2[1] - p1[1]) * (p2[1] - p1[1]) + (p2[2] - p1[2]) * (p2[2] - p1[2])

\* getHaversineDistanceMeters(p1, p2) <= limit.  With R = 6371 km one unit
\* is 1.00176 m, so the squared distance in units is scaled by 1.0035.
HaversineWithin(p1, p2, limit) ==
    HaversineDistSq(p1, p2) * 10035 <= limit * limit * 10000

normalizeAngle(angle) == ((angle % 360) + 360) % 360

\* progress is the fraction pNum / pDen.
interpolateAngle(from, to, pNum, pDen) ==
    LET Wrap(normFrom, d0) ==
            normalizeAngle(normFrom
                + (((IF d0 > 180 THEN d0 - 360
                     ELSE IF d0 < -180 THEN d0 + 360 ELSE d0) * pNum) \div pDen))
    IN  Wrap(normalizeAngle(from), normalizeAngle(to) - normalizeAngle(from))

----------------------------------------------------------------------------
(* getSnappedPos.ts: the Snap Engine *)

MAX_SNAP_DISTANCE_METERS == 50
DEFAULT_SNAP_INDEX_RANGE == 80

\* String.prototype.trim on the stop ids of the model.
Trim(s) == IF s = " A " THEN "A" ELSE s

\* m[k] when it is a finite number, else null.
Lookup(m, k) == IF k \in DOMAIN m THEN Some(m[k]) ELSE None

\* The first lookup that is a finite number, in the order of the source.
FirstSome(seq) ==
    IF \E i \in 1..Len(seq) : IsSome(seq[i])
    THEN seq[CHOOSE i \in 1..Len(seq) :
                 IsSome(seq[i]) /\ \A j \in 1..(i - 1) : seq[j] = None]
    ELSE None

\* stopIndexMap: None, or Some of a record of the four lookup tables.
\* direction: None or Some(d).
getStopCoordIndex(stopIndexMap, nodeid, nodeord, direction) ==
    IF stopIndexMap = None THEN None
    ELSE LET Find(m, cleanedId) ==
                 FirstSome(<<
                     IF IsSome(direction) /\ cleanedId # ""
                     THEN Lookup(m.byIdDir, <<cleanedId, Val(direction)>>) ELSE None,
                     IF IsSome(direction)
                     THEN Lookup(m.byOrdDir, <<nodeord, Val(direction)>>) ELSE None,
                     IF cleanedId # "" THEN Lookup(m.byId, cleanedId) ELSE None,
                     Lookup(m.byOrd, nodeord) >>)
         IN  Find(Val(stopIndexMap), Trim(nodeid))

getSegmentHint(coordIndex, direction, lineLength, turnIndex, isSwapped) ==
    IF coordIndex = None \/ lineLength < 2 THEN None
    ELSE LET Hint(ci, lastSegment, effectiveDirection) ==
                 IF turnIndex = None THEN Some(clampIndex(ci - 1, lastSegment))
                 ELSE IF effectiveDirection = 1
                 THEN IF ci > Val(turnIndex) THEN None
                      ELSE Some(clampIndex(ci - 1, lastSegment))
                 ELSE IF ci < Val(turnIndex) THEN None
                      ELSE Some(clampIndex((ci - Val(turnIndex)) - 1, lastSegment))
         IN  Hint(Val(coordIndex), lineLength - 2,
                  IF isSwapped THEN (IF direction = 1 THEN 0 ELSE 1) ELSE direction)

\* createCandidate of getSnappedPosition: None when the line is unusable.
createCandidate(in, line, dir) ==
    IF Len(line) < 2 THEN None
    ELSE LET Candidate(rawPosition, snapped) ==
                 Some([position |-> snapped.position,
                       angle |-> snapped.angle,
                       direction |-> Some(dir),
                       segmentIndex |-> Some(snapped.segmentIndex),
                       distSq |-> HaversineDistSq(rawPosition, snapped.position),
                       isValid |-> HaversineWithin(rawPosition, snapped.position,
                                                   MAX_SNAP_DISTANCE_METERS)])
             CoordIndex(stopIndexOfDir, stopIndexAny) ==
                 IF IsSome(stopIndexOfDir) THEN stopIndexOfDir ELSE stopIndexAny
         IN  Candidate(in.gps,
                 snapPointToPolyline(in.gps, line,
                     getSegmentHint(
                         CoordIndex(
                             getStopCoordIndex(in.stopIndexMap, in.nodeid, in.nodeord,
                                               Some(dir)),
                             getStopCoordIndex(in.stopIndexMap, in.nodeid, in.nodeord,
                                               None)),
                         dir, Len(line), in.turnIndex, in.isSwapped),
                     Some(in.snapIndexRange)))

IsValidCandidate(c) == IsSome(c) /\ Val(c).isValid

\* What the caller reads of a returned candidate or of the default result.
Result(position, angle, direction, segmentIndex) ==
    [position |-> position, angle |-> angle, direction |-> direction,
     segmentIndex |-> segmentIndex]

OfCandidate(c) == Result(Val(c).position, Val(c).angle, Val(c).direction, Val(c).segmentIndex)

\* A plausible slip: off-route, the nearer projection is returned anyway.
ClosestValid_nearestAnyway(apiDirection, rawPosition, candidateUp, candidateDown) ==
    IF IsSome(candidateUp) /\ IsSome(candidateDown)
    THEN (IF Val(candidateUp).distSq < Val(candidateDown).distSq
          THEN OfCandidate(candidateUp) ELSE OfCandidate(candidateDown))
    ELSE IF IsSome(candidateUp) THEN OfCandidate(candidateUp)
    ELSE IF IsSome(candidateDown) THEN OfCandidate(candidateDown)
    ELSE Result(rawPosition, 0,
                IF IsSome(apiDirection) THEN apiDirection ELSE Some(0), None)

\* A plausible slip: of two valid lines the up line is taken.
ClosestValid_upFirst(apiDirection, rawPosition, candidateUp, candidateDown) ==
    IF IsValidCandidate(candidateUp) THEN OfCandidate(candidateUp)
    ELSE IF IsValidCandidate(candidateDown) THEN OfCandidate(candidateDown)
    ELSE Result(rawPosition, 0,
                IF IsSome(apiDirection) THEN apiDirection ELSE Some(0), None)

\* Case B, C and D of the selection: the closest valid line, the only
\* valid line, or the raw fix with the direction "apiDirection ?? 0".
ClosestValid(apiDirection, rawPosition, candidateUp, candidateDown) ==
    IF IsValidCandidate(candidateUp) /\ IsValidCandidate(candidateDown)
    THEN (IF Val(candidateUp).distSq < Val(candidateDown).distSq
          THEN OfCandidate(candidateUp) ELSE OfCandidate(candidateDown))
    ELSE IF IsValidCandidate(candidateUp) THEN OfCandidate(candidateUp)
    ELSE IF IsValidCandidate(candidateDown) THEN OfCandidate(candidateDown)
    ELSE Result(rawPosition, 0,
                IF IsSome(apiDirection) THEN apiDirection ELSE Some(0), None)

\* A plausible slip: the closest valid line is taken before the API direction.
getSnappedPosition_closestFirst(in) ==
    ClosestValid(in.apiDirection, in.gps,
                 createCandidate(in, in.upPolyline, 1),
                 createCandidate(in, in.downPolyline, 0))

\* in.apiDirection is what getDirection(nodeid, nodeord, routeid) returned.
getSnappedPosition(in) ==
    LET Select(apiDirection, candidateUp, candidateDown) ==
            IF apiDirection = Some(1) /\ IsValidCandidate(candidateUp)
            THEN OfCandidate(candidateUp)
            ELSE IF apiDirection = Some(0) /\ IsValidCandidate(candidateDown)
            THEN OfCandidate(candidateDown)
            ELSE ClosestValid(apiDirection, in.gps, candidateUp, candidateDown)
    IN  Select(in.apiDirection,
               createCandidate(in, in.upPolyline, 1),
               createCandidate(in, in.downPolyline, 0))

(* Inputs of the Snap Engine runs *)

\* Two parallel carriageways 40 m apart, a bent line, and unusable lines.
SnapUpLines == { <<<<0, 0>>, <<0, 100>>>>,
                 <<<<0, 0>>, <<0, 50>>, <<60, 50>>>>,
                 <<>> }
SnapDownLines == { <<<<40, 100>>, <<40, 0>>>>,
                   <<<<40, 50>>>>,
                   <<>> }
SnapFixes == { <<10, 20>>, <<30, 20>>, <<45, 70>>, <<-30, 120>>, <<95, 50>>, <<20, 60>> }
SnapDirections == { None, Some(0), Some(1) }
SnapStopMaps ==
    { None,
      Some([byId |-> [x \in {"A"} |-> 1],
            byIdDir |-> [x \in {<<"A", 0>>} |-> 2],
            byOrd |-> [x \in {1, 2} |-> x],
            byOrdDir |-> [x \in {<<2, 1>>} |-> 0]]) }
SnapInputs ==
    [ gps : SnapFixes,
      nodeid : {"A", " A ", ""},
      nodeord : {1, 2},
      apiDirection : SnapDirections,
      upPolyline : SnapUpLines,
      downPolyline : SnapDownLines,
      stopIndexMap : SnapStopMaps,
      turnIndex : {None, Some(1)},
      isSwapped : BOOLEAN,
      snapIndexRange : {0, DEFAULT_SNAP_INDEX_RANGE} ]

----------------------------------------------------------------------------
(* useAnimatedPosition: pure helpers *)

BACKWARD_T_EPSILON_DEN == 1000
BACKWARD_JITTER_METERS == 12
STATE_UPDATE_THROTTLE_MS == 50

Frac(n, d) == [num |-> n, den |-> d]
State(position, angle) == [position |-> position, angle |-> angle]

\* A plausible slip: the comparison of the in-segment offsets is dropped.
isBackwardProgress_segOnly(startSegIdx, startT, endSegIdx, endT) ==
    endSegIdx < startSegIdx

\* startT and endT are fractions [num, den]; BACKWARD_T_EPSILON is
\* 1 / BACKWARD_T_EPSILON_DEN.  endT < startT - epsilon, cross-multiplied
\* (the denominators are positive).
isBackwardProgress(startSegIdx, startT, endSegIdx, endT) ==
    IF endSegIdx < startSegIdx THEN TRUE
    ELSE IF endSegIdx > startSegIdx THEN FALSE
    ELSE IF startT.den = endT.den
         THEN endT.num * BACKWARD_T_EPSILON_DEN
                < startT.num * BACKWARD_T_EPSILON_DEN - startT.den
         ELSE endT.num * startT.den * BACKWARD_T_EPSILON_DEN
                < (startT.num * BACKWARD_T_EPSILON_DEN - startT.den) * endT.den

\* A plausible slip: the path cuts straight from start to end.
buildPolylinePath_straight(polyline, startPos, startSegIdx, endPos, endSegIdx) ==
    <<startPos, endPos>>

buildPolylinePath(polyline, startPos, startSegIdx, endPos, endSegIdx) ==
    IF startSegIdx = endSegIdx THEN <<startPos, endPos>>
    ELSE IF endSegIdx > startSegIdx
    THEN <<startPos>>
           \o [k \in 1..(endSegIdx - startSegIdx) |-> polyline[startSegIdx + k + 1]]
           \o <<endPos>>
    ELSE <<startPos, endPos>>

RECURSIVE CumulativeDistances(_, _)
CumulativeDistances(path, acc) ==
    IF Len(acc) = Len(path) THEN acc
    ELSE CumulativeDistances(path,
             Append(acc, acc[Len(acc)]
                           + getEuclideanDistance(path[Len(acc)], path[Len(acc) + 1])))

\* A plausible slip: each entry is the length of its own segment, not
\* the sum so far.
precomputePathDistances_perSegment(path) ==
    IF Len(path) = 0 THEN [distances |-> <<>>, totalDistance |-> 0]
    ELSE IF Len(path) = 1 THEN [distances |-> <<0>>, totalDistance |-> 0]
    ELSE LET Total(d) == [distances |-> d, totalDistance |-> d[Len(d)]]
         IN  Total([i \in 1..Len(path) |->
                       IF i = 1 THEN 0 ELSE getEuclideanDistance(path[i - 1], path[i])])

precomputePathDistances(path) ==
    IF Len(path) = 0 THEN [distances |-> <<>>, totalDistance |-> 0]
    ELSE IF Len(path) = 1 THEN [distances |-> <<0>>, totalDistance |-> 0]
    ELSE LET Total(d) == [distances |-> d, totalDistance |-> d[Len(d)]]
         IN  Total(CumulativeDistances(path, <<0>>))

\* The binary search of interpolateAlongPathWithCache; indices are 0-based
\* and target is in thousandths of a unit.
RECURSIVE SearchSegment(_, _, _, _)
SearchSegment(distances, target, low, high) ==
    IF low < high
    THEN IF distances[((low + high + 1) \div 2) + 1] * 1000 <= target
         THEN SearchSegment(distances, target, (low + high + 1) \div 2, high)
         ELSE SearchSegment(distances, target, low, ((low + high + 1) \div 2) - 1)
    ELSE low

\* A plausible slip: the position is taken on the straight line between
\* the first and the last waypoint.
interpolateAlongPathWithCache_straight(path, distances, totalDistance, progress) ==
    IF Len(path) = 0 THEN [position |-> <<0, 0>>, angle |-> 0]
    ELSE IF Len(path) = 1 THEN [position |-> path[1], angle |-> 0]
    ELSE IF totalDistance = 0 THEN [position |-> path[Len(path)], angle |-> 0]
    ELSE LET Lerp(p1, p2, t) ==
                 [position |-> <<p1[1] + (((p2[1] - p1[1]) * t) \div 1000),
                                 p1[2] + (((p2[2] - p1[2]) * t) \div 1000)>>,
                  angle |-> calculateBearing(p1, p2)]
         IN  Lerp(path[1], path[Len(path)], Max(0, Min(1000, progress)))

\* progress is in thousandths (0..1000 after the clamp).
interpolateAlongPathWithCache(path, distances, totalDistance, progress) ==
    IF Len(path) = 0 THEN [position |-> <<0, 0>>, angle |-> 0]
    ELSE IF Len(path) = 1 THEN [position |-> path[1], angle |-> 0]
    ELSE IF totalDistance = 0 THEN [position |-> path[Len(path)], angle |-> 0]
    ELSE LET Lerp(p1, p2, tNum, tDen) ==
                 [position |-> <<p1[1] + (((p2[1] - p1[1]) * tNum) \div tDen),
                                 p1[2] + (((p2[2] - p1[2]) * tNum) \div tDen)>>,
                  angle |-> calculateBearing(p1, p2)]
             Within(targetDistance, segIdx, segStart, segLen) ==
                 Lerp(path[segIdx + 1], path[segIdx + 2],
                      IF segLen > 0 THEN targetDistance - segStart * 1000 ELSE 0,
                      IF segLen > 0 THEN segLen * 1000 ELSE 1)
             Segment(targetDistance, segIdx) ==
                 Within(targetDistance, segIdx, distances[segIdx + 1],
                        distances[segIdx + 2] - distances[segIdx + 1])
             Found(targetDistance, low) ==
                 Segment(targetDistance,
                         IF low >= Len(path) - 1 THEN Len(path) - 2 ELSE low)
             Target(targetDistance) ==
                 Found(targetDistance,
                       SearchSegment(distances, targetDistance, 0, Len(distances) - 1))
         IN  Target(totalDistance * Max(0, Min(1000, progress)))

\* easeOutQuart(elapsed / duration) in thousandths, for 0 <= elapsed <= duration.
easeOutQuart(elapsed, duration) ==
    LET Quart(u2) == 1000 - ((u2 * u2) \div 1000)
        Square(u) == Quart((u * u) \div 1000)
    IN  Square(((duration - elapsed) * 1000) \div duration)

----------------------------------------------------------------------------
(* useAnimatedPosition: the hook.                                          *)
(* The effects and the frame callback are functions of a world record w:   *)
(* the ref cells, the pending frame callbacks, the emitted state, the      *)
(* marker, and the ghost fields of the step: emitted (its setState calls), *)
(* wrote (the arguments of its marker writes), kind (the branch taken),    *)
(* reset (the reset effect acted) and hasCleanup.                          *)

setState(w, st) == [w EXCEPT !.rendered = st, !.emitted = Append(@, st)]

\* cancelAnimationFrame(id): a stale id cancels nothing.
cancelAnimationFrame(w, id) == [w EXCEPT !.frames = {f \in @ : f.id # id}]

\* animationRef.current = requestAnimationFrame(tick); the closure tick
\* keeps the duration of the render that created it.
requestAnimationFrame(w, duration, gen) ==
    [w EXCEPT !.frames = @ \cup {[id |-> w.nextFrameId, duration |-> duration, gen |-> gen]},
              !.nextFrameId = @ + 1,
              !.refs.animationRef = Some(w.nextFrameId)]

\* updateMarkerDirect returns false without a marker or when the marker
\* throws (outcome "throw": setLatLng throws and nothing is written).
MarkerOk(hasMarker, outcome) == hasMarker /\ outcome = "ok"

updateMarkerDirect(w, hasMarker, outcome, pos, angle) ==
    IF ~hasMarker THEN w
    ELSE IF outcome = "ok"
    THEN [w EXCEPT !.marker = State(pos, angle), !.wrote = Append(@, State(pos, angle))]
    ELSE [w EXCEPT !.wrote = Append(@, State(pos, angle))]

\* if (animationRef.current !== null) cancelAnimationFrame(animationRef.current)
CancelRunning(w) ==
    IF IsSome(w.refs.animationRef)
    THEN cancelAnimationFrame(w, Val(w.refs.animationRef))
    ELSE w

\* A plausible slip: the cleanup forgets to cancel the frame.
MainCleanup_noCancel(w) == w

\* The cleanup the main effect returns once it has started an animation.
MainCleanup(w) ==
    IF IsSome(w.refs.animationRef)
    THEN cancelAnimationFrame(w, Val(w.refs.animationRef))
    ELSE w

\* The body of the reset effect once the key is known to have changed.
ResetTo(w, p, doSnap, snapped) ==
    setState([w EXCEPT !.refs.resetKey = p.resetKey,
                       !.refs.animationRef = None,
                       !.refs.currentPos = IF doSnap THEN snapped.position ELSE p.target,
                       !.refs.currentAngle = IF doSnap THEN snapped.angle ELSE p.angle,
                       !.refs.prevSnapIndex = IF doSnap /\ p.hint = None
                                              THEN Some(snapped.segmentIndex) ELSE p.hint,
                       !.refs.prevTarget = p.target,
                       !.reset = TRUE],
             State(IF doSnap THEN snapped.position ELSE p.target,
                   IF doSnap THEN snapped.angle ELSE p.angle))

\* A plausible slip: the reset keeps the position of the old route.
ResetEffect_keepsPosition(w, p) ==
    IF w.refs.resetKey = p.resetKey THEN w
    ELSE [CancelRunning(w) EXCEPT !.refs.resetKey = p.resetKey,
                                !.refs.animationRef = None,
                                !.refs.prevTarget = p.target,
                                !.reset = TRUE]

\* The effect on resetKey (route change).
ResetEffect(w, p) ==
    IF w.refs.resetKey = p.resetKey THEN w
    ELSE ResetTo(CancelRunning(w), p, p.snap /\ Len(p.polyline) >= 2,
                 snapPointToPolyline(p.target, p.polyline, p.hint, p.range))

\* A plausible slip: the new path starts where the superseded animation
\* was going to end.
StartPos_oldEnd(r) == r.animationEndPos

\* const startPos = currentPosRef.current
StartPos(r) == r.currentPos

\* A plausible slip: every backward move is taken for a jump.
IsJitter_never(backMetersSq) == FALSE

\* backMeters <= BACKWARD_JITTER_METERS
IsJitter(backMetersSq) ==
    backMetersSq <= BACKWARD_JITTER_METERS * BACKWARD_JITTER_METERS

\* A plausible slip: a large backward move is animated like a forward one.
IsBackward_never(startSnapped, endSnapped) == FALSE

\* const isBackward = isBackwardProgress(...)
IsBackward(startSnapped, endSnapped) ==
    isBackwardProgress(startSnapped.segmentIndex,
                       Frac(startSnapped.tNum, startSnapped.tDen),
                       endSnapped.segmentIndex,
                       Frac(endSnapped.tNum, endSnapped.tDen))

\* The start of an animation: the path, its distances, the recorded end,
\* and the first requestAnimationFrame.
StartAnimation(w, p, now, gen, path, startAngle, endPos, endAngle) ==
    LET Go(pd) ==
            [requestAnimationFrame(
                 [w EXCEPT !.refs.animationPath = path,
                           !.refs.pathDistances = pd.distances,
                           !.refs.pathTotalDistance = pd.totalDistance,
                           !.refs.animationStartTime = now,
                           !.refs.animationStartAngle = startAngle,
                           !.refs.animationEndAngle = endAngle,
                           !.refs.animationEndPos = endPos,
                           !.refs.lastStateUpdate = 0],
                 p.duration, gen)
               EXCEPT !.kind = "start", !.hasCleanup = TRUE]
    IN  Go(precomputePathDistances(path))

\* The branch "first render, or the polyline just became available".
SnapImmediately(w, p, outcome, doSnap, snapped) ==
    LET Init(initPos) ==
            setState([(IF doSnap
                       THEN updateMarkerDirect(w, p.marker # "none", outcome, initPos, p.angle)
                       ELSE w)
                        EXCEPT !.refs.isFirstRender = FALSE,
                               !.refs.hasInitialSnapped = (@ \/ doSnap),
                               !.refs.currentPos = initPos,
                               !.refs.currentAngle = p.angle,
                               !.refs.prevSnapIndex = IF doSnap /\ p.hint = None
                                                      THEN Some(snapped.segmentIndex)
                                                      ELSE p.hint,
                               !.refs.prevTarget = p.target,
                               !.kind = "first"],
                     State(initPos, p.angle))
    IN  Init(IF doSnap THEN snapped.position ELSE p.target)

\* A plausible slip: the heading waits for the next move.
SamePosition_keepsHeading(w, p) ==
    [w EXCEPT !.refs.prevSnapIndex = IF IsSome(p.hint) THEN p.hint ELSE @,
              !.kind = "same"]

\* The branch "same raw position": only the heading is taken.
SamePosition(w, p) ==
    [w EXCEPT !.refs.currentAngle = p.angle,
              !.refs.prevSnapIndex = IF IsSome(p.hint) THEN p.hint ELSE @,
              !.rendered = State(w.rendered.position, p.angle),
              !.emitted = Append(@, State(w.rendered.position, p.angle)),
              !.kind = "same"]

\* The snapping branch of a moved target: jitter, teleport or a path
\* along the polyline.
MoveSnapped(wc, p, now, gen, startAngle, startSnapped, endSnapped) ==
    IF IsBackward(startSnapped, endSnapped)
    THEN IF IsJitter(ApproxDistanceMetersSq(startSnapped.position, endSnapped.position))
         THEN [wc EXCEPT !.kind = "jitter"]
         ELSE setState([wc EXCEPT !.refs.currentPos = endSnapped.position,
                                  !.refs.currentAngle = endSnapped.angle,
                                  !.refs.prevSnapIndex =
                                      IF IsSome(p.hint) THEN p.hint
                                      ELSE Some(endSnapped.segmentIndex),
                                  !.kind = "teleport"],
                       State(endSnapped.position, endSnapped.angle))
    ELSE StartAnimation([wc EXCEPT !.refs.prevSnapIndex =
                                       IF IsSome(p.hint) THEN p.hint
                                       ELSE Some(endSnapped.segmentIndex)],
                        p, now, gen,
                        buildPolylinePath(p.polyline, startSnapped.position,
                                          startSnapped.segmentIndex,
                                          endSnapped.position, endSnapped.segmentIndex),
                        startAngle, endSnapped.position, endSnapped.angle)

\* The branch of a moved target: "cancel any running animation", then the
\* path from the current position.
MoveTo(wc, r, p, now, gen, doSnap) ==
    IF doSnap
    THEN MoveSnapped(wc, p, now, gen, r.currentAngle,
                     snapPointToPolyline(StartPos(r), p.polyline, r.prevSnapIndex, p.range),
                     snapPointToPolyline(p.target, p.polyline, p.hint, p.range))
    ELSE StartAnimation(wc, p, now, gen, <<StartPos(r), p.target>>,
                        r.currentAngle, p.target, p.angle)

\* The main animation effect; r is the ref cells it finds.  The result's
\* kind says which branch ran and hasCleanup whether the run returned a
\* cleanup.
MainEffect(w0, p, now, outcome, gen) ==
    LET Run(r, w, hasPolyline) ==
            IF r.isFirstRender
               \/ (hasPolyline /\ r.prevPolylineLength < 2 /\ ~r.hasInitialSnapped)
            THEN SnapImmediately(w, p, outcome, p.snap /\ hasPolyline,
                     snapPointToPolyline(p.target, p.polyline, p.hint, p.range))
            ELSE IF p.target = r.prevTarget
            THEN SamePosition(w, p)
            ELSE MoveTo([CancelRunning(w) EXCEPT !.refs.prevTarget = p.target],
                        r, p, now, gen, p.snap /\ hasPolyline)
    IN  Run(w0.refs,
            [w0 EXCEPT !.refs.prevPolylineLength = Len(p.polyline), !.hasCleanup = FALSE],
            Len(p.polyline) >= 2)

\* A plausible slip: the completion branch only clears the frame handle.
FinishAnimation_noSnap(w, hasMarker, outcome) ==
    [w EXCEPT !.refs.animationRef = None, !.kind = "complete"]

\* The else branch of tick (rawProgress >= 1): "ensure final position is exact".
FinishAnimation(w, hasMarker, outcome) ==
    setState(updateMarkerDirect(
                 [w EXCEPT !.refs.currentPos = w.refs.animationEndPos,
                           !.refs.currentAngle = w.refs.animationEndAngle,
                           !.refs.animationRef = None,
                           !.kind = "complete"],
                 hasMarker, outcome, w.refs.animationEndPos, w.refs.animationEndAngle),
             State(w.refs.animationEndPos, w.refs.animationEndAngle))

\* What tick computes for the frame at currentTime.
TickState(r, duration, currentTime) ==
    LET Frame(done, progress, pathResult) ==
            [position |-> pathResult.position,
             angle |-> IF Len(r.animationPath) > 1 THEN pathResult.angle
                       ELSE interpolateAngle(r.animationStartAngle, r.animationEndAngle,
                                             progress, 1000),
             done |-> done]
        Progress(done, progress) ==
            Frame(done, progress,
                  interpolateAlongPathWithCache(r.animationPath, r.pathDistances,
                                                r.pathTotalDistance, progress))
        Elapsed(elapsed) ==
            Progress(elapsed >= duration,
                     IF elapsed >= duration THEN 1000 ELSE easeOutQuart(elapsed, duration))
    IN  Elapsed(currentTime - r.animationStartTime)

\* A plausible slip: the throttle is left out.
ShouldUpdateState_everyFrame(directUpdateSuccess, currentTime, lastStateUpdate, done) == TRUE

\* shouldUpdateState of tick
ShouldUpdateState(directUpdateSuccess, currentTime, lastStateUpdate, done) ==
    \/ ~directUpdateSuccess
    \/ currentTime - lastStateUpdate >= STATE_UPDATE_THROTTLE_MS
    \/ done

\* The frame callback f run by the browser at currentTime; o1 and o2 are
\* the outcomes of the marker writes.
TickFrame(w, f, hasMarker, currentTime, o1, o2) ==
    LET Emit(ts, w2) ==
            IF ShouldUpdateState(MarkerOk(hasMarker, o1), currentTime,
                                 w.refs.lastStateUpdate, ts.done)
            THEN setState([w2 EXCEPT !.refs.lastStateUpdate = currentTime],
                          State(ts.position, ts.angle))
            ELSE w2
        Again(ts, w3) ==
            IF ~ts.done
            THEN requestAnimationFrame(w3, f.duration, f.gen)
            ELSE FinishAnimation(w3, hasMarker, o2)
        Step(ts) ==
            Again(ts,
                  Emit(ts,
                       updateMarkerDirect(
                           [w EXCEPT !.refs.currentPos = ts.position,
                                     !.refs.currentAngle = ts.angle,
                                     !.kind = "tick"],
                           hasMarker, o1, ts.position, ts.angle)))
    IN  Step(TickState(w.refs, f.duration, currentTime))

----------------------------------------------------------------------------
(* The animator's runs *)

MaxRenders == 2          \* re-renders with new arguments
DurationMs == 100        \* the duration option of the hook

PolyA == << <<0, 0>>, <<0, 30>>, <<30, 30>>, <<30, 60>> >>
PolyB == << <<30, 0>>, <<30, 60>> >>
Polylines == { <<>>, PolyA, PolyB }
ResetKeys == { 1, 2 }
FrameSteps == { 30, 60 }
InitClocks == { 0, 1000 }
\* markerRef.current: no marker, a marker, or a marker whose setLatLng throws.
Markers == { "none", "ok", "throw" }

Fix(target, angle, hint) == [target |-> target, angle |-> angle, hint |-> hint]
\* The fixes a poll may deliver after the first one, <<1, 25>> heading 90:
\* the same place with another heading, 10 m and 20 m behind it on PolyA,
\* and further along PolyA with and without a segment hint.
Fixes == { Fix(<<1, 25>>, 0, None),
           Fix(<<-3, 15>>, 90, None),
           Fix(<<2, 5>>, 90, None),
           Fix(<<28, 45>>, 0, Some(2)),
           Fix(<<28, 45>>, 90, None) }

\* The arguments of the first render.  Without a polyline the option
\* snapToPolyline is left at its default, true.
InitProps ==
    { p \in [ target : { <<1, 25>> }, angle : { 90 }, polyline : { <<>>, PolyA },
              snap : BOOLEAN, hint : { None },
              range : { None, Some(DEFAULT_SNAP_INDEX_RANGE) },
              resetKey : { 1 }, duration : { DurationMs }, marker : Markers ] :
        p.polyline = <<>> => p.snap }

\* A poll delivers a new fix, or the route changes.
NextProps(p) ==
    { [p EXCEPT !.target = f.target, !.angle = f.angle, !.hint = f.hint] : f \in Fixes }
    \cup { [p EXCEPT !.polyline = l, !.resetKey = k] : l \in Polylines, k \in ResetKeys }

\* useState's initializer of the first render.
InitRendered(p) ==
    IF p.snap /\ Len(p.polyline) >= 2
    THEN State(snapPointToPolyline(p.target, p.polyline, p.hint, p.range).position, p.angle)
    ELSE State(p.target, p.angle)

\* The useRef initial values of the first render.
InitRefs(p) ==
    [ animationRef |-> None, isFirstRender |-> TRUE, hasInitialSnapped |-> FALSE,
      prevPolylineLength |-> Len(p.polyline), prevTarget |-> p.target,
      prevSnapIndex |-> p.hint, currentPos |-> p.target, currentAngle |-> p.angle,
      animationPath |-> <<>>, animationStartTime |-> 0,
      animationStartAngle |-> p.angle, animationEndAngle |-> p.angle,
      animationEndPos |-> p.target, resetKey |-> p.resetKey,
      pathDistances |-> <<>>, pathTotalDistance |-> 0, lastStateUpdate |-> 0 ]

\* What a re-render or an unmount found: a frame was pending, the ticks of
\* that animation so far, the current position, and the two ends of the
\* last path.
NoPre == [ running |-> FALSE, ticks |-> 0, pos |-> <<0, 0>>,
           start |-> <<0, 0>>, end |-> <<0, 0>> ]

Pre == [ running |-> frames # {}, ticks |-> obs.ticks, pos |-> refs.currentPos,
         start |-> IF refs.animationPath = <<>> THEN refs.currentPos
                   ELSE refs.animationPath[1],
         end |-> refs.animationEndPos ]

InitObs ==
    [ kind |-> "init", reset |-> FALSE, emitted |-> <<>>, wrote |-> <<>>,
      renders |-> 0, gen |-> 0, live |-> 0, ticks |-> 0, ranDead |-> FALSE,
      pre |-> NoPre ]

World ==
    [ refs |-> refs, frames |-> frames, nextFrameId |-> nextFrameId,
      rendered |-> rendered, marker |-> marker, emitted |-> <<>>, wrote |-> <<>>,
      kind |-> "none", reset |-> FALSE, hasCleanup |-> hasCleanup ]

\* The dependency list of the main effect.
MainDepsChanged(p, q) ==
    \/ p.target # q.target \/ p.angle # q.angle \/ p.duration # q.duration
    \/ p.polyline # q.polyline \/ p.snap # q.snap \/ p.hint # q.hint
    \/ p.range # q.range

\* The effects of a commit after a render with the arguments p: the
\* cleanup of the main effect when its dependencies changed, then the
\* reset effect, then the main effect.
RunEffects(w, old, p, now, outcome, gen) ==
    LET Main(w2) ==
            IF MainDepsChanged(old, p) THEN MainEffect(w2, p, now, outcome, gen) ELSE w2
    IN  Main(ResetEffect(IF MainDepsChanged(old, p) /\ w.hasCleanup
                         THEN MainCleanup(w) ELSE w, p))

\* Writes the world back.  The ghost obs keeps what the step did: gen
\* numbers the animations, live is the animation that has not been
\* cancelled or completed, ticks counts the frames of the current
\* animation, ranDead says that a frame of another animation ran.
Commit(w, kind, isRender, ticks, ranDead) ==
    /\ refs' = w.refs
    /\ frames' = w.frames
    /\ nextFrameId' = w.nextFrameId
    /\ rendered' = w.rendered
    /\ marker' = w.marker
    /\ hasCleanup' = w.hasCleanup
    /\ obs' = [ kind |-> kind, reset |-> w.reset, emitted |-> w.emitted,
                wrote |-> w.wrote,
                renders |-> IF isRender THEN obs.renders + 1 ELSE obs.renders,
                gen |-> IF w.kind = "start" THEN obs.gen + 1 ELSE obs.gen,
                live |-> IF w.kind = "start" THEN obs.gen + 1
                         ELSE IF kind = "tick" THEN obs.live ELSE 0,
                ticks |-> IF w.kind = "start" THEN 0 ELSE ticks,
                ranDead |-> ranDead,
                pre |-> IF isRender \/ kind = "unmount" THEN Pre ELSE NoPre ]
    /\ UNCHANGED <<snapVars, cacheVars, dirVars, pollVars, fnVars>>

AnimInit ==
    /\ props \in InitProps
    /\ rendered = InitRendered(props)
    /\ refs = InitRefs(props)
    /\ frames = {}
    /\ nextFrameId = 1
    /\ hasCleanup = FALSE
    /\ mounted = "rendered"
    /\ clock \in InitClocks
    /\ marker = rendered
    /\ obs = InitObs

\* The effects of the first commit.
Mount ==
    /\ mounted = "rendered"
    /\ LET Done(w) == Commit(w, w.kind, FALSE, 0, obs.ranDead)
       IN  Done(MainEffect(ResetEffect(World, props), props, clock, props.marker,
                           obs.gen + 1))
    /\ mounted' = "mounted"
    /\ UNCHANGED <<props, clock>>

\* A re-render with new arguments.
Render ==
    /\ mounted = "mounted"
    /\ obs.renders < MaxRenders
    /\ \E p \in NextProps(props) \ {props} :
         LET Done(w) == Commit(w, w.kind, TRUE, obs.ticks, obs.ranDead)
         IN  /\ props' = p
             /\ Done(RunEffects(World, props, p, clock, p.marker, obs.gen + 1))
    /\ UNCHANGED <<mounted, clock>>

\* The browser runs a pending frame callback.
Tick ==
    \E f \in frames, step \in FrameSteps :
      LET Done(w) == Commit(w, w.kind, FALSE, obs.ticks + 1,
                            obs.ranDead \/ f.gen # obs.live)
      IN  /\ clock' = clock + step
          /\ Done(TickFrame([World EXCEPT !.frames = @ \ {f}], f, props.marker # "none",
                            clock + step, props.marker, props.marker))
          /\ UNCHANGED <<props, mounted>>

\* The component unmounts: React runs the last cleanup.
Unmount ==
    /\ mounted = "mounted"
    /\ Commit(IF hasCleanup THEN MainCleanup(World) ELSE World,
              "unmount", FALSE, obs.ticks, obs.ranDead)
    /\ mounted' = "unmounted"
    /\ UNCHANGED <<props, clock>>

----------------------------------------------------------------------------
(* CacheManager<T>.  A Map is a function on the set of its keys; the       *)
(* insertion order of accessTimes, which evictLRU's reduce follows, is     *)
(* accessOrder.  The value a producer invocation resolves with is its id;  *)
(* a direct set stores 0.                                                  *)

MaxSize == 2             \* the constructor's maxSize
MaxRequests == 2         \* producer invocations in a run
MaxDate == 1             \* Date.now() runs from 0 to MaxDate
CacheKeys == { "a", "b", "c" }

EmptyMap == [x \in {} |-> 0]
MapSet(m, k, v) == [x \in (DOMAIN m) \cup {k} |-> IF x = k THEN v ELSE m[x]]
MapDel(m, ks) == [x \in (DOMAIN m) \ ks |-> m[x]]
SeqDel(q, ks) == SelectSeq(q, LAMBDA x : x \notin ks)
\* Map.set keeps the place of a key that is already there.
OrderSet(q, k) == IF \E i \in 1..Len(q) : q[i] = k THEN q ELSE Append(q, k)
\* The key moves to the most recently used end.
Touch(q, k) == Append(SeqDel(q, {k}), k)

Store == [ cache |-> cache, accessTimes |-> accessTimes, accessOrder |-> accessOrder,
           pendingRequests |-> pendingRequests, lastUse |-> lastUse, evicted |-> None,
           key |-> None, joined |-> None, settled |-> None ]

\* accessTimes.set(key, Date.now())
TouchTime(c, key, now) ==
    [c EXCEPT !.accessTimes = MapSet(@, key, now),
              !.accessOrder = OrderSet(@, key),
              !.lastUse = Touch(@, key)]

\* The reduce of evictLRU: the first entry, in insertion order, with the
\* least access time (curr[1] < oldest[1] is strict).
RECURSIVE OldestKey(_, _, _, _)
OldestKey(times, order, i, oldest) ==
    IF i > Len(order) THEN oldest
    ELSE OldestKey(times, order, i + 1,
                   IF times[order[i]] < times[oldest] THEN order[i] ELSE oldest)

evictLRU(c) ==
    LET Evict(oldestKey) ==
            [c EXCEPT !.cache = MapDel(@, {oldestKey}),
                      !.accessTimes = MapDel(@, {oldestKey}),
                      !.accessOrder = SeqDel(@, {oldestKey}),
                      !.pendingRequests = MapDel(@, {oldestKey}),
                      !.lastUse = SeqDel(@, {oldestKey}),
                      !.evicted = Some(oldestKey)]
    IN  Evict(OldestKey(c.accessTimes, c.accessOrder, 2, c.accessOrder[1]))

\* set(key, value)
CacheSet(c, key, value, now) ==
    LET Put(c1) == TouchTime([c1 EXCEPT !.cache = MapSet(@, key, value)], key, now)
    IN  Put(IF Cardinality(DOMAIN c.cache) >= MaxSize /\ key \notin DOMAIN c.cache
            THEN evictLRU(c) ELSE c)

\* get(key)
CacheGet(c, key, now) ==
    IF key \in DOMAIN c.cache THEN TouchTime(c, key, now) ELSE c

\* delete(key), and clear() with every key
CacheDelete(c, keys) ==
    [c EXCEPT !.cache = MapDel(@, keys),
              !.accessTimes = MapDel(@, keys),
              !.accessOrder = SeqDel(@, keys),
              !.pendingRequests = MapDel(@, keys),
              !.lastUse = SeqDel(@, keys)]

\* clearExcept(keysToKeep): the access time goes with a cached key.
CacheClearExcept(c, keep) ==
    [c EXCEPT !.cache = MapDel(@, (DOMAIN c.cache) \ keep),
              !.accessTimes = MapDel(@, (DOMAIN c.cache) \ keep),
              !.accessOrder = SeqDel(@, (DOMAIN c.cache) \ keep),
              !.pendingRequests = MapDel(@, (DOMAIN c.pendingRequests) \ keep),
              !.lastUse = SeqDel(@, (DOMAIN c.cache) \ keep)]

\* Writes the store back; op names the step.  The ghost cobs keeps the
\* evicted key and the key that was the least recently accessed.
CacheCommit(c, op) ==
    /\ cache' = c.cache
    /\ accessTimes' = c.accessTimes
    /\ accessOrder' = c.accessOrder
    /\ pendingRequests' = c.pendingRequests
    /\ lastUse' = c.lastUse
    /\ cobs' = [ op |-> op, evicted |-> c.evicted,
                 lru |-> IF c.evicted = None THEN None ELSE Some(lastUse[1]),
                 key |-> c.key, joined |-> c.joined, settled |-> c.settled ]
    /\ UNCHANGED <<snapVars, animVars, dirVars, pollVars, fnVars>>

CacheInit ==
    /\ cache = EmptyMap
    /\ accessTimes = EmptyMap
    /\ accessOrder = <<>>
    /\ pendingRequests = EmptyMap
    /\ inflight = {}
    /\ nextReq = 1
    /\ dateNow = 0
    /\ lastUse = <<>>
    /\ cobs = [ op |-> "new", evicted |-> None, lru |-> None, key |-> None,
                joined |-> None, settled |-> None ]

DoGet ==
    \E k \in CacheKeys :
      /\ CacheCommit(CacheGet(Store, k, dateNow), "get")
      /\ UNCHANGED <<inflight, nextReq, dateNow>>

DoSet ==
    \E k \in CacheKeys :
      /\ CacheCommit(CacheSet(Store, k, 0, dateNow), "set")
      /\ UNCHANGED <<inflight, nextReq, dateNow>>

\* Ghost: the requests in flight for one of keys have seen a delete or a
\* clear of their key.
MarkCleared(requests, keys) ==
    { IF r.key \in keys THEN [r EXCEPT !.cleared = TRUE] ELSE r : r \in requests }

DoDelete ==
    \E k \in CacheKeys :
      /\ CacheCommit(CacheDelete(Store, {k}), "delete")
      /\ inflight' = MarkCleared(inflight, {k})
      /\ UNCHANGED <<nextReq, dateNow>>

DoClear ==
    /\ CacheCommit(CacheDelete(Store, CacheKeys), "clear")
    /\ inflight' = MarkCleared(inflight, CacheKeys)
    /\ UNCHANGED <<nextReq, dateNow>>

DoClearExcept ==
    \E keep \in SUBSET CacheKeys :
      /\ keep # {}
      /\ CacheCommit(CacheClearExcept(Store, keep), "clearExcept")
      /\ UNCHANGED <<inflight, nextReq, dateNow>>

\* getOrFetch(key, fetchFn): synchronous up to the returned promise.  The
\* ghost key of cobs is the key of the call, joined the request whose
\* pending promise the call returned.
DoGetOrFetch ==
    \E k \in CacheKeys :
      IF k \in DOMAIN cache
      THEN /\ CacheCommit([TouchTime(Store, k, dateNow) EXCEPT !.key = Some(k)], "hit")
           /\ UNCHANGED <<inflight, nextReq, dateNow>>
      ELSE IF k \in DOMAIN pendingRequests
      THEN /\ CacheCommit([Store EXCEPT !.key = Some(k),
                                        !.joined = Some(pendingRequests[k])], "join")
           /\ UNCHANGED <<inflight, nextReq, dateNow>>
      ELSE /\ nextReq <= MaxRequests
           /\ CacheCommit([Store EXCEPT !.pendingRequests = MapSet(@, k, nextReq),
                                        !.key = Some(k)], "fetch")
           /\ inflight' = inflight \cup {[id |-> nextReq, key |-> k, phase |-> "fetching",
                                            cleared |-> FALSE, rejected |-> FALSE]}
           /\ nextReq' = nextReq + 1
           /\ UNCHANGED dateNow

\* The producer's promise settles and the .then callback runs: on success
\* it stores the data, on rejection it is skipped.
ProducerSettles ==
    \E r \in inflight, ok \in BOOLEAN :
      /\ r.phase = "fetching"
      /\ CacheCommit(IF ok THEN CacheSet(Store, r.key, r.id, dateNow) ELSE Store,
                     IF ok THEN "resolved" ELSE "rejected")
      /\ inflight' = (inflight \ {r})
                        \cup {[r EXCEPT !.phase = "finally", !.rejected = ~ok]}
      /\ UNCHANGED <<nextReq, dateNow>>

\* A plausible slip: the pending entry outlives the request.
FinallyCallback_keepsEntry(c, key) == c

\* The .finally callback: pendingRequests.delete(key).
FinallyCallback(c, key) == [c EXCEPT !.pendingRequests = MapDel(@, {key})]

\* The .finally callback runs and the promise getOrFetch returned settles
\* for every caller that holds it; the ghost settled of cobs keeps the
\* request.
RequestFinally ==
    \E r \in inflight :
      /\ r.phase = "finally"
      /\ CacheCommit([FinallyCallback(Store, r.key)
                       EXCEPT !.settled = Some([key |-> r.key, rejected |-> r.rejected,
                                                cleared |-> r.cleared])], "finally")
      /\ inflight' = inflight \ {r}
      /\ UNCHANGED <<nextReq, dateNow>>

\* A millisecond passes.
DateAdvances ==
    /\ dateNow < MaxDate
    /\ dateNow' = dateNow + 1
    /\ UNCHANGED <<cache, accessTimes, accessOrder, pendingRequests, inflight,
                   nextReq, lastUse, cobs>>
    /\ UNCHANGED <<snapVars, animVars, dirVars, pollVars, fnVars>>

----------------------------------------------------------------------------
(* useBusLocation.ts: the Direction Resolver (useBusDirection) *)

\* MAP_SETTINGS.ALWAYS_UPWARD_NODE_IDS of the runs: one configured stop.
ALWAYS_UPWARD_NODEIDS == { "U" }

\* String.prototype.trim on the stop ids of the resolver's runs.
TrimNode(s) == IF s = " S1 " THEN "S1" ELSE IF s = "  " THEN "" ELSE s

SeqItem(nodeid, nodeord, updowncd) ==
    [nodeid |-> nodeid, nodeord |-> nodeord, updowncd |-> updowncd]

\* route_details of the static data: the sequence of each route-variant id.
RouteDetails(routeid) ==
    CASE routeid = "A1" -> << SeqItem("S1", 1, 1), SeqItem("S2", 2, 1), SeqItem("S1", 5, 0) >>
      [] routeid = "A2" -> << SeqItem("S1", 3, 1), SeqItem("S3", 4, 1) >>
      [] routeid = "B1" -> << SeqItem("S1", 2, 0), SeqItem("U", 6, 0) >>

\* The route map of the static data: route name -> route-variant ids.
\* Route "N" is not in the map.
RouteMap(routeName) ==
    CASE routeName = "A" -> << "A1", "A2" >>
      [] routeName = "B" -> << "B1" >>
      [] OTHER -> << >>

RouteNames == { "A", "B", "N" }

\* useState initial values; "of" is ghost: the route the sequences are of.
EmptyRouteState == [ isReady |-> FALSE, sequences |-> << >>, of |-> None ]

\* sequenceLookupMap.get(nodeid): the candidates of a stop in the order
\* the memo pushes them (variant by variant, item by item).
RECURSIVE CandidatesOf(_, _, _, _)
CandidatesOf(sequences, nodeid, v, i) ==
    IF v > Len(sequences) THEN << >>
    ELSE IF i > Len(sequences[v].sequence)
    THEN CandidatesOf(sequences, nodeid, v + 1, 1)
    ELSE (IF sequences[v].sequence[i].nodeid = nodeid
          THEN << [ routeid |-> sequences[v].routeid,
                    nodeord |-> sequences[v].sequence[i].nodeord,
                    updowncd |-> sequences[v].sequence[i].updowncd ] >>
          ELSE << >>)
         \o CandidatesOf(sequences, nodeid, v, i + 1)

sequenceLookupMap(st, nodeid) ==
    IF ~st.isReady THEN << >> ELSE CandidatesOf(st.sequences, nodeid, 1, 1)

\* routeMixedDirMap.get(routeid) ?? false
routeMixedDirMap(st, routeid) ==
    \E v \in 1..Len(st.sequences) :
        /\ st.sequences[v].routeid = routeid
        /\ \E i, j \in 1..Len(st.sequences[v].sequence) :
              st.sequences[v].sequence[i].updowncd # st.sequences[v].sequence[j].updowncd

\* fallbackDirMap.get(routeid): None for undefined.
fallbackDirMap(st, routeid) ==
    IF Len(st.sequences) = 2 /\ st.sequences[2].routeid = routeid THEN Some(0)
    ELSE IF Len(st.sequences) = 2 /\ st.sequences[1].routeid = routeid THEN Some(1)
    ELSE None

activeRouteIds(st) == { st.sequences[v].routeid : v \in 1..Len(st.sequences) }

\* Array.prototype.filter
RECURSIVE Filter(_, _, _)
Filter(seq, Keep(_), i) ==
    IF i > Len(seq) THEN << >>
    ELSE (IF Keep(seq[i]) THEN << seq[i] >> ELSE << >>) \o Filter(seq, Keep, i + 1)

\* The candidate pool of a call: the candidates scoped by the route-variant
\* id, or all of the stop's candidates when the scope is empty.
Pool(st, candidates, routeid) ==
    LET OfRoute(c) == c.routeid = Val(routeid)
        Active(c) == c.routeid \in activeRouteIds(st)
        Scoped(scopedCandidates) ==
            IF Len(scopedCandidates) > 0 THEN scopedCandidates ELSE candidates
    IN  Scoped(IF IsSome(routeid) THEN Filter(candidates, OfRoute, 1)
               ELSE Filter(candidates, Active, 1))

\* A plausible slip: on equal differences the earlier candidate is kept.
Closer_firstWins(best, curr, targetOrd) ==
    IF Abs(curr.nodeord - targetOrd) < Abs(best.nodeord - targetOrd) THEN curr ELSE best

\* One step of the reduce of Rule 3.
Closer(best, curr, targetOrd) ==
    IF Abs(curr.nodeord - targetOrd) < Abs(best.nodeord - targetOrd) THEN curr
    ELSE IF Abs(curr.nodeord - targetOrd) = Abs(best.nodeord - targetOrd)
            /\ curr.nodeord < best.nodeord THEN curr
    ELSE best

RECURSIVE ReduceCloser(_, _, _, _)
ReduceCloser(pool, targetOrd, i, best) ==
    IF i > Len(pool) THEN best
    ELSE ReduceCloser(pool, targetOrd, i + 1, Closer(best, pool[i], targetOrd))

\* exactMatch || pool.reduce(..., pool[0]), for a pool that is not empty.
bestMatch(pool, targetOrd) ==
    IF \E i \in 1..Len(pool) : pool[i].nodeord = targetOrd
    THEN pool[CHOOSE i \in 1..Len(pool) :
                  /\ pool[i].nodeord = targetOrd
                  /\ \A j \in 1..(i - 1) : pool[j].nodeord # targetOrd]
    ELSE ReduceCloser(pool, targetOrd, 1, pool[1])

\* Rule 4: the direction of the best match.
DirectionOf(st, match) ==
    IF ~routeMixedDirMap(st, match.routeid) /\ IsSome(fallbackDirMap(st, match.routeid))
    THEN fallbackDirMap(st, match.routeid)
    ELSE IF match.updowncd = 0 THEN Some(0) ELSE Some(1)

\* Rules 2 to 4 for a normalized stop id.
FromSequences(st, normalizedNodeId, targetOrd, routeid) ==
    LET Best(pool) == DirectionOf(st, bestMatch(pool, targetOrd))
        Lookup2(candidates) ==
            IF Len(candidates) = 0 THEN None
            ELSE Best(Pool(st, candidates, routeid))
    IN  Lookup2(sequenceLookupMap(st, normalizedNodeId))

\* Ghost: the bestMatch of Rule 3 in the call, None when the call returned
\* before Rule 3.
RuleThreeMatch(st, nodeid, nodeord, routeid) ==
    IF \/ ~st.isReady
       \/ nodeid = None
       \/ nodeord = None
    THEN None
    ELSE IF \/ TrimNode(Val(nodeid)) = ""
            \/ TrimNode(Val(nodeid)) \in ALWAYS_UPWARD_NODEIDS
            \/ Len(sequenceLookupMap(st, TrimNode(Val(nodeid)))) = 0
    THEN None
    ELSE Some(bestMatch(Pool(st, sequenceLookupMap(st, TrimNode(Val(nodeid))), routeid),
                        Val(nodeord)))

\* A plausible slip: the readiness check is left out.
getDirection_ignoresReady(st, nodeid, nodeord, routeid) ==
    IF nodeid = None \/ Val(nodeid) = "" THEN None
    ELSE IF TrimNode(Val(nodeid)) = "" THEN None
    ELSE IF nodeord = None THEN None
    ELSE IF TrimNode(Val(nodeid)) \in ALWAYS_UPWARD_NODEIDS THEN Some(1)
    ELSE FromSequences(st, TrimNode(Val(nodeid)), Val(nodeord), routeid)

\* A plausible slip: the override list is consulted after the lookup.
getDirection_overrideLast(st, nodeid, nodeord, routeid) ==
    IF ~st.isReady THEN None
    ELSE IF nodeid = None \/ Val(nodeid) = "" THEN None
    ELSE IF TrimNode(Val(nodeid)) = "" THEN None
    ELSE IF nodeord = None THEN None
    ELSE IF Len(sequenceLookupMap(st, TrimNode(Val(nodeid)))) > 0
    THEN FromSequences(st, TrimNode(Val(nodeid)), Val(nodeord), routeid)
    ELSE IF TrimNode(Val(nodeid)) \in ALWAYS_UPWARD_NODEIDS THEN Some(1)
    ELSE None

\* getDirection of the render whose state is st.  nodeid: None (null or
\* undefined) or Some(string); routeid: None or Some(id);
\* nodeord: Some(n), or None when Number(nodeord) is not finite.  The
\* result is None (unresolved), Some(0) (down) or Some(1) (up).
getDirection(st, nodeid, nodeord, routeid) ==
    IF ~st.isReady THEN None
    ELSE IF nodeid = None \/ Val(nodeid) = "" THEN None
    ELSE IF TrimNode(Val(nodeid)) = "" THEN None
    ELSE IF nodeord = None THEN None
    ELSE IF TrimNode(Val(nodeid)) \in ALWAYS_UPWARD_NODEIDS THEN Some(1)
    ELSE FromSequences(st, TrimNode(Val(nodeid)), Val(nodeord), routeid)

(* The hook's renders, its load effect and the loads *)

MaxDirRenders == 3

\* The arguments of the getDirection calls of the runs.
DirNodeIds == { None, Some(""), Some("  "), Some("S1"), Some(" S1 "), Some("U"), Some("X") }
DirNodeOrds == { None, Some(1), Some(2), Some(4) }
DirRouteIds == { None, Some("A1"), Some("A2"), Some("ZZ") }

\* details.filter(Boolean): the variants whose details are not null, in
\* the order of info.vehicleRouteIds.
RECURSIVE ValidDetails(_, _, _)
ValidDetails(routeIds, found, i) ==
    IF i > Len(routeIds) THEN << >>
    ELSE (IF routeIds[i] \in found
          THEN << [ routeid |-> routeIds[i], sequence |-> RouteDetails(routeIds[i]) ] >>
          ELSE << >>)
         \o ValidDetails(routeIds, found, i + 1)

\* The first render of the mounted hook: nothing is loaded.
DirInit ==
    /\ dirRoute \in RouteNames
    /\ dirState = EmptyRouteState
    /\ dirFn = EmptyRouteState
    /\ dirEffect = TRUE
    /\ dirLoads = {}
    /\ dirRenders = 1
    /\ dirOut = None

\* The component renders again, with the same or another routeName: the
\* new getDirection closes over the state of this render (l.201-264).  The
\* effects of a render run before the next render starts.
DirRender ==
    /\ ~dirEffect
    /\ dirRenders < MaxDirRenders
    /\ \E r \in RouteNames :
         /\ dirRoute' = r
         /\ dirEffect' = (r # dirRoute)
    /\ dirFn' = dirState
    /\ dirRenders' = dirRenders + 1
    /\ dirOut' = None
    /\ UNCHANGED <<dirState, dirLoads>>
    /\ UNCHANGED <<snapVars, animVars, cacheVars, pollVars, fnVars>>

\* The load effect (l.114-158): the cleanup of the previous run clears its
\* isMounted, then loadData resets the state and awaits getRouteInfo.
DirLoadEffect ==
    /\ dirEffect
    /\ dirEffect' = FALSE
    /\ dirState' = EmptyRouteState
    /\ dirLoads' = { [l EXCEPT !.isMounted = FALSE] : l \in dirLoads }
                     \cup { [ id |-> dirRenders, route |-> dirRoute,
                              isMounted |-> TRUE, stage |-> "info" ] }
    /\ dirOut' = None
    /\ UNCHANGED <<dirRoute, dirFn, dirRenders>>
    /\ UNCHANGED <<snapVars, animVars, cacheVars, pollVars, fnVars>>

\* getRouteInfo resolves (l.124-128): null for a route the map does not
\* hold (getRouteInfo catches its own errors), else the load goes on to
\* getRouteDetails.
DirInfoLoaded ==
    /\ \E l \in dirLoads :
         /\ l.stage = "info"
         /\ IF Len(RouteMap(l.route)) = 0
            THEN /\ dirLoads' = dirLoads \ {l}
                 /\ dirState' = IF l.isMounted
                                THEN [dirState EXCEPT !.sequences = << >>, !.of = None]
                                ELSE dirState
            ELSE /\ dirLoads' = (dirLoads \ {l}) \cup {[l EXCEPT !.stage = "details"]}
                 /\ dirState' = dirState
    /\ dirOut' = None
    /\ UNCHANGED <<dirRoute, dirFn, dirEffect, dirRenders>>
    /\ UNCHANGED <<snapVars, animVars, cacheVars, pollVars, fnVars>>

\* Promise.all of the getRouteDetails calls resolves (l.130-144); found
\* are the variants whose details are not null.
DirDetailsLoaded ==
    /\ \E l \in dirLoads :
         /\ l.stage = "details"
         /\ \E found \in SUBSET { RouteMap(l.route)[i] : i \in 1..Len(RouteMap(l.route)) } :
              dirState' = IF l.isMounted
                          THEN [ isReady |-> TRUE,
                                 sequences |-> ValidDetails(RouteMap(l.route), found, 1),
                                 of |-> Some(l.route) ]
                          ELSE dirState
         /\ dirLoads' = dirLoads \ {l}
    /\ dirOut' = None
    /\ UNCHANGED <<dirRoute, dirFn, dirEffect, dirRenders>>
    /\ UNCHANGED <<snapVars, animVars, cacheVars, pollVars, fnVars>>

\* A getRouteDetails call rejects (l.145-150).
DirDetailsFailed ==
    /\ \E l \in dirLoads :
         /\ l.stage = "details"
         /\ dirState' = IF l.isMounted
                        THEN [dirState EXCEPT !.sequences = << >>, !.of = None]
                        ELSE dirState
         /\ dirLoads' = dirLoads \ {l}
    /\ dirOut' = None
    /\ UNCHANGED <<dirRoute, dirFn, dirEffect, dirRenders>>
    /\ UNCHANGED <<snapVars, animVars, cacheVars, pollVars, fnVars>>

\* A caller resolves the direction of a fix with the getDirection of the
\* last render.  getDirection changes no state, so one observed call
\* between two steps of the hook stands for any number of calls.
DirResolve ==
    /\ dirOut = None
    /\ \E nodeid \in DirNodeIds, nodeord \in DirNodeOrds, routeid \in DirRouteIds :
         dirOut' = Some([ nodeid |-> nodeid, nodeord |-> nodeord, routeid |-> routeid,
                          result |-> getDirection(dirFn, nodeid, nodeord, routeid),
                          match |-> RuleThreeMatch(dirFn, nodeid, nodeord, routeid) ])
    /\ UNCHANGED <<dirRoute, dirState, dirFn, dirEffect, dirLoads, dirRenders>>
    /\ UNCHANGED <<snapVars, animVars, cacheVars, pollVars, fnVars>>

DirStill ==
    /\ dirRoute = "N"
    /\ dirState = EmptyRouteState
    /\ dirFn = EmptyRouteState
    /\ dirEffect = FALSE
    /\ dirLoads = {}
    /\ dirRenders = MaxDirRenders
    /\ dirOut = None
----------------------------------------------------------------------------
(* BusPollingService.ts *)

MaxPolls == 3

\* Route "A" is in the route map, route "N" is not.
PollRoutes == { "A", "N" }

\* routeMap[routeName] has vehicle ids.
HasVehicleIds(routeName) == routeName = "A"

\* What a fetch stores: the buses of the response ("buses"), an empty
\* response ("none") or the [] of the catch block ("failed").  "of" is
\* ghost: the number of the fetchAndUpdate call, in the order of issue.
FixSet(of, kind) == [ of |-> of, kind |-> kind ]

\* fetchFn(): a fetchAndUpdate call starts and awaits getRouteMap.
IssueFetch(fetches, issued, routeName) ==
    fetches \cup { [ id |-> issued + 1, route |-> routeName, stage |-> "routeMap" ] }

\* this.cache[routeName] = buses and the listeners' callbacks (l.199-208,
\* l.213-224): the subscriber of the route, if any, receives the fix-set
\* and the error code.
StoreAndNotify(f, kind) ==
    /\ pollCache' = [pollCache EXCEPT ![f.route] = Some(FixSet(f.id, kind))]
    /\ pollObs' = IF pollListeners[f.route]
                  THEN [ route |-> f.route, data |-> Some(FixSet(f.id, kind)),
                         error |-> IF kind = "buses" THEN "null"
                                   ELSE IF kind = "none" THEN "ERR:NONE_RUNNING"
                                   ELSE "ERR:NETWORK" ]
                  ELSE pollObs

PollInit ==
    /\ pollCache = [r \in PollRoutes |-> None]
    /\ pollListeners = [r \in PollRoutes |-> FALSE]
    /\ pollIntervals = {}
    /\ pollFetches = {}
    /\ pollIssued = 0
    /\ pollObs = [ route |-> "N", data |-> None, error |-> "null" ]

\* subscribe (l.35-69): cached data is delivered at once.
PollSubscribe ==
    /\ \E r \in PollRoutes :
         /\ ~pollListeners[r]
         /\ pollListeners' = [pollListeners EXCEPT ![r] = TRUE]
         /\ pollObs' = IF pollCache[r] # None
                       THEN [ route |-> r, data |-> pollCache[r], error |-> pollObs.error ]
                       ELSE pollObs
    /\ UNCHANGED <<pollCache, pollIntervals, pollFetches, pollIssued>>
    /\ UNCHANGED <<snapVars, animVars, cacheVars, dirVars, fnVars>>

\* The cleanup function subscribe returned (l.57-68).
PollUnsubscribe ==
    /\ \E r \in PollRoutes :
         /\ pollListeners[r]
         /\ pollListeners' = [pollListeners EXCEPT ![r] = FALSE]
    /\ UNCHANGED <<pollCache, pollIntervals, pollFetches, pollIssued, pollObs>>
    /\ UNCHANGED <<snapVars, animVars, cacheVars, dirVars, fnVars>>

\* startPolling (l.98-130) for a route that is not polled: the immediate
\* fetch, the interval and the two page listeners.
PollStart ==
    /\ pollIssued < MaxPolls
    /\ \E r \in PollRoutes \ pollIntervals :
         /\ pollFetches' = IssueFetch(pollFetches, pollIssued, r)
         /\ pollIntervals' = pollIntervals \cup {r}
    /\ pollIssued' = pollIssued + 1
    /\ UNCHANGED <<pollCache, pollListeners, pollObs>>
    /\ UNCHANGED <<snapVars, animVars, cacheVars, dirVars, fnVars>>

\* stopPolling (l.135-153); fetches in flight go on.
PollStop ==
    /\ \E r \in pollIntervals : pollIntervals' = pollIntervals \ {r}
    /\ UNCHANGED <<pollCache, pollListeners, pollFetches, pollIssued, pollObs>>
    /\ UNCHANGED <<snapVars, animVars, cacheVars, dirVars, fnVars>>

\* The interval fires (l.110).
PollIntervalTick ==
    /\ pollIssued < MaxPolls
    /\ \E r \in pollIntervals : pollFetches' = IssueFetch(pollFetches, pollIssued, r)
    /\ pollIssued' = pollIssued + 1
    /\ UNCHANGED <<pollCache, pollListeners, pollIntervals, pollObs>>
    /\ UNCHANGED <<snapVars, animVars, cacheVars, dirVars, fnVars>>

\* visibilitychange with the page visible (l.113-115).
PollVisible ==
    /\ pollIssued < MaxPolls
    /\ \E r \in pollIntervals : pollFetches' = IssueFetch(pollFetches, pollIssued, r)
    /\ pollIssued' = pollIssued + 1
    /\ UNCHANGED <<pollCache, pollListeners, pollIntervals, pollObs>>
    /\ UNCHANGED <<snapVars, animVars, cacheVars, dirVars, fnVars>>

\* pageshow of a page restored from the cache (l.118-120).
PollPageShow ==
    /\ pollIssued < MaxPolls
    /\ \E r \in pollIntervals : pollFetches' = IssueFetch(pollFetches, pollIssued, r)
    /\ pollIssued' = pollIssued + 1
    /\ UNCHANGED <<pollCache, pollListeners, pollIntervals, pollObs>>
    /\ UNCHANGED <<snapVars, animVars, cacheVars, dirVars, fnVars>>

\* getRouteMap settles in a fetchAndUpdate call (l.169-174): a rejection,
\* or a route without vehicle ids, ends in the catch block (l.209-225).
\* The route map is one cached, deduplicated request (getStaticData), so
\* the calls waiting for it go on in the order they were issued.
PollRouteMapLoaded ==
    /\ \E f \in pollFetches, resolved \in BOOLEAN :
         /\ f.stage = "routeMap"
         /\ \A g \in pollFetches : g.stage = "routeMap" => f.id <= g.id
         /\ IF resolved /\ HasVehicleIds(f.route)
            THEN /\ pollFetches' = (pollFetches \ {f}) \cup {[f EXCEPT !.stage = "locations"]}
                 /\ UNCHANGED <<pollCache, pollObs>>
            ELSE /\ pollFetches' = pollFetches \ {f}
                 /\ StoreAndNotify(f, "failed")
    /\ UNCHANGED <<pollListeners, pollIntervals, pollIssued>>
    /\ UNCHANGED <<snapVars, animVars, cacheVars, dirVars, fnVars>>

\* Promise.allSettled of the getBusLocationData calls resolves
\* (l.177-208): buses, no buses, or every call rejected (l.193-195).
PollLocationsSettled ==
    /\ \E f \in pollFetches :
         /\ f.stage = "locations"
         /\ pollFetches' = pollFetches \ {f}
         /\ \E kind \in { "buses", "none", "failed" } : StoreAndNotify(f, kind)
    /\ UNCHANGED <<pollListeners, pollIntervals, pollIssued>>
    /\ UNCHANGED <<snapVars, animVars, cacheVars, dirVars, fnVars>>

\* clearOtherCaches (l.74-82): the cache of every other route goes; a
\* route's listener set goes only when it is empty.
PollClearOtherCaches ==
    /\ \E currentRoute \in PollRoutes :
         /\ \E r \in PollRoutes \ {currentRoute} : pollCache[r] # None
         /\ pollCache' = [r \in PollRoutes |->
                            IF r = currentRoute THEN pollCache[r] ELSE None]
    /\ UNCHANGED <<pollListeners, pollIntervals, pollFetches, pollIssued, pollObs>>
    /\ UNCHANGED <<snapVars, animVars, cacheVars, dirVars, fnVars>>

\* cleanup (l.88-93): every interval stops, the cache and the listeners
\* go; fetches in flight go on.
PollCleanup ==
    /\ pollIntervals # {} \/ \E r \in PollRoutes : pollCache[r] # None \/ pollListeners[r]
    /\ pollIntervals' = {}
    /\ pollCache' = [r \in PollRoutes |-> None]
    /\ pollListeners' = [r \in PollRoutes |-> FALSE]
    /\ UNCHANGED <<pollFetches, pollIssued, pollObs>>
    /\ UNCHANGED <<snapVars, animVars, cacheVars, dirVars, fnVars>>

PollStill == PollInit
----------------------------------------------------------------------------
(* polyUtils.ts: the Polyline Transform *)

\* toLatLngCoords: GeoJSON [lng, lat] pairs become [lat, lng] pairs.
toLatLngCoords(coords) == [i \in 1..Len(coords) |-> << coords[i][2], coords[i][1] >>]

\* Array.prototype.slice(start, end) with 0-based bounds inside the array.
Slice(arr, start, end) == [i \in 1..(end - start) |-> arr[start + i]]

\* A plausible slip: a part of a single point is kept as a polyline.
splitByTurnIndex_keepsPoint(coords, turnIndex) ==
    IF Len(coords) < 2 THEN [upPolyline |-> << >>, downPolyline |-> << >>]
    ELSE LET Parts(idx) ==
                 [upPolyline |-> << Slice(coords, 0, idx + 1) >>,
                  downPolyline |-> << Slice(coords, idx, Len(coords)) >>]
         IN  Parts(clampIndex(turnIndex, Len(coords) - 1))

\* turnIndex is a whole number (Math.round of it is itself).  A part of
\* fewer than 2 points is dropped.
splitByTurnIndex(coords, turnIndex) ==
    IF Len(coords) < 2 THEN [upPolyline |-> << >>, downPolyline |-> << >>]
    ELSE LET Parts(upCoords, downCoords) ==
                 [upPolyline |-> IF Len(upCoords) > 1 THEN << upCoords >> ELSE << >>,
                  downPolyline |-> IF Len(downCoords) > 1 THEN << downCoords >> ELSE << >>]
             At(idx) == Parts(Slice(coords, 0, idx + 1), Slice(coords, idx, Len(coords)))
         IN  At(clampIndex(turnIndex, Len(coords) - 1))

\* A turn_idx of the geometry file: None when the property is absent
\* (undefined), Some(n) for a number, NullTurn for null and NaNTurn for a
\* number that is NaN.
NullTurn == << "null", "" >>
NaNTurn == << "NaN", "" >>
IsNumber(turn_idx) == Len(turn_idx) = 1

\* splitByTurnIndex called with null or NaN: Math.round(null) is 0, so
\* null splits at index 0; Math.round(NaN) and the clamp of it are NaN,
\* and slice takes a NaN bound for 0.
splitByNonNumber(coords, turnIndex) ==
    IF Len(coords) < 2 THEN [upPolyline |-> << >>, downPolyline |-> << >>]
    ELSE LET Parts(upCoords, downCoords) ==
                 [upPolyline |-> IF Len(upCoords) > 1 THEN << upCoords >> ELSE << >>,
                  downPolyline |-> IF Len(downCoords) > 1 THEN << downCoords >> ELSE << >>]
         IN  Parts(Slice(coords, 0, IF turnIndex = NullTurn THEN 1 ELSE 0),
                   Slice(coords, 0, Len(coords)))

\* data: [features |-> 0 or 1, coordinates, turn_idx]; features is the
\* number of features, coordinates and turn_idx are those of the first
\* feature.
transformPolyline(data) ==
    IF data.features = 0 THEN [upPolyline |-> << >>, downPolyline |-> << >>]
    ELSE LET Split(coords) ==
                 IF data.turn_idx # None
                 THEN IF IsNumber(data.turn_idx)
                      THEN splitByTurnIndex(coords, Val(data.turn_idx))
                      ELSE splitByNonNumber(coords, data.turn_idx)
                 ELSE [upPolyline |-> IF Len(coords) > 1 THEN << coords >> ELSE << >>,
                       downPolyline |-> << >>]
         IN  Split(toLatLngCoords(data.coordinates))

\* snapToPolyline of polyUtils.ts repeats snapPointToPolyline of geoUtils.ts
\* statement by statement.
snapToPolyline(P, polyline, hint, searchRadius) ==
    snapPointToPolyline(P, polyline, hint, searchRadius)

(* polylineDirection.ts: the Swap Heuristic *)

MAX_SAMPLE_STOPS == 20
SWAP_RATIO_SQ_PERCENT == 81

getSquaredDistanceToPolyline(point, polyline) ==
    LET To(snapped) ==
            (point[1] - snapped.position[1]) * (point[1] - snapped.position[1])
              + (point[2] - snapped.position[2]) * (point[2] - snapped.position[2])
    IN  To(snapToPolyline(point, polyline, None, None))

\* The indices 0, step, 2 step, ... of coords, at most MAX_SAMPLE_STOPS.
sampleCoordinates(coords) ==
    IF Len(coords) <= MAX_SAMPLE_STOPS THEN coords
    ELSE LET Sampled(step) ==
                 [k \in 1..Min(MAX_SAMPLE_STOPS, (Len(coords) + step - 1) \div step)
                    |-> coords[(k - 1) * step + 1]]
         IN  Sampled((Len(coords) + MAX_SAMPLE_STOPS - 1) \div MAX_SAMPLE_STOPS)

RECURSIVE TotalDistSq(_, _, _)
TotalDistSq(points, polyline, i) ==
    IF i > Len(points) THEN 0
    ELSE getSquaredDistanceToPolyline(points[i], polyline) + TotalDistSq(points, polyline, i + 1)

\* calculateMeanSquaredError as the fraction total / n: None for null.
calculateMeanSquaredError(points, polyline) ==
    IF Len(points) = 0 \/ Len(polyline) < 2 THEN None
    ELSE Some([total |-> TotalDistSq(points, polyline, 1), n |-> Len(points)])

\* The coordinates of the stops of the sequence with direction code cd
\* that the station map holds.
RECURSIVE StopsOf(_, _, _, _)
StopsOf(sequence, stationMap, cd, i) ==
    IF i > Len(sequence) THEN << >>
    ELSE (IF sequence[i].nodeid \in DOMAIN stationMap /\ sequence[i].updowncd = cd
          THEN << stationMap[sequence[i].nodeid] >> ELSE << >>)
         \o StopsOf(sequence, stationMap, cd, i + 1)

\* a / n < (b / n) * 0.81 for the means a / n and b / n of the same points.
Below81Percent(alt, same) == alt.total * 100 < same.total * SWAP_RATIO_SQ_PERCENT

\* A plausible slip: one direction's evidence is enough.
Verdict_either(mseUpToUp, mseUpToDown, mseDownToUp, mseDownToDown) ==
    Below81Percent(mseUpToDown, mseUpToUp) \/ Below81Percent(mseDownToUp, mseDownToDown)

\* l.135-141: both directions must agree.
Verdict(mseUpToUp, mseUpToDown, mseDownToUp, mseDownToDown) ==
    Below81Percent(mseUpToDown, mseUpToUp) /\ Below81Percent(mseDownToUp, mseDownToDown)

\* routeDetail: None or Some(sequence); stationMap: None or Some(map).
shouldSwapPolylines(routeDetail, stationMap, upPolyline, downPolyline) ==
    IF routeDetail = None \/ stationMap = None THEN FALSE
    ELSE IF Len(upPolyline) < 2 \/ Len(downPolyline) < 2 THEN FALSE
    ELSE LET Errors(upSample, downSample) ==
                 Verdict(Val(calculateMeanSquaredError(upSample, upPolyline)),
                         Val(calculateMeanSquaredError(upSample, downPolyline)),
                         Val(calculateMeanSquaredError(downSample, upPolyline)),
                         Val(calculateMeanSquaredError(downSample, downPolyline)))
             Stops(upStops, downStops) ==
                 IF Len(upStops) = 0 \/ Len(downStops) = 0 THEN FALSE
                 ELSE Errors(sampleCoordinates(upStops), sampleCoordinates(downStops))
         IN  Stops(StopsOf(Val(routeDetail), Val(stationMap), 1, 1),
                   StopsOf(Val(routeDetail), Val(stationMap), 0, 1))

----------------------------------------------------------------------------
(* Calls of the pure functions on enumerated inputs *)

FnStill == fnIn = << >> /\ fnOut = None

MaxCoords == 4           \* the longest raw coordinate sequence

\* GeoJSON coordinate sequences [lng, lat] of k points, two shapes.
GeoLine(k, shape) ==
    [i \in 1..k |-> IF shape = 1 THEN << 10 * i, i * i >> ELSE << 50 - i, 7 * i >>]

TransformInputs ==
    { [features |-> f, coordinates |-> GeoLine(k, shape), turn_idx |-> t] :
        f \in {0, 1}, k \in 0..MaxCoords, shape \in {1, 2},
        t \in {None, NullTurn, NaNTurn} \cup { Some(n) : n \in -1..(MaxCoords + 1) } }

TransformInit == fnIn \in TransformInputs /\ fnOut = None

TransformCall ==
    /\ fnOut = None
    /\ fnOut' = Some(transformPolyline(fnIn))
    /\ UNCHANGED fnIn
    /\ UNCHANGED <<snapVars, animVars, cacheVars, dirVars, pollVars>>

\* Stations are numbered; MaxStops of them are labelled outbound (1) and
\* three inbound (0).
MaxStops == 22

\* The outbound stops 1..MaxStops lie along x = upX, but every second one
\* (the ones a stride of 2 skips) along x = oddX; the inbound stops lie
\* along x = downX.
Stations(upX, oddX, downX) ==
    [n \in 1..(MaxStops + 3) |->
        IF n > MaxStops THEN << downX, 30 * (n - MaxStops) >>
        ELSE << IF n % 2 = 0 THEN oddX ELSE upX, 4 * n >>]

StationMaps ==
    { None, Some(Stations(38, 38, 3)), Some(Stations(3, 3, 38)),
      Some(Stations(38, 38, 38)), Some(Stations(3, 3, 3)),
      Some(Stations(38, 3, 3)), Some(Stations(20, 20, 20)) }

\* Stop sequences: the first n outbound stops followed by the inbound
\* ones; "odd" adds a stop no station is known for and a stop with a
\* direction code that is neither 0 nor 1.
StopSequence(n, odd) ==
    [i \in 1..n |-> [nodeid |-> i, updowncd |-> 1]]
      \o [i \in 1..3 |-> [nodeid |-> MaxStops + i, updowncd |-> 0]]
      \o (IF odd THEN << [nodeid |-> 0, updowncd |-> 1],
                         [nodeid |-> 1, updowncd |-> 2] >>
          ELSE << >>)

SwapRouteDetails ==
    { None, Some(StopSequence(3, FALSE)), Some(StopSequence(3, TRUE)),
      Some(StopSequence(MaxStops, FALSE)), Some(StopSequence(0, FALSE)),
      Some([i \in 1..2 |-> [nodeid |-> i, updowncd |-> 1]]) }

SwapPolylines ==
    { << <<0, 0>>, <<0, 100>> >>, << <<40, 100>>, <<40, 0>> >>,
      << <<0, 0>>, <<20, 50>>, <<40, 100>> >>, << <<0, 0>> >> }

SwapInputs ==
    { [routeDetail |-> d, stationMap |-> m, upPolyline |-> u, downPolyline |-> w] :
        d \in SwapRouteDetails, m \in StationMaps,
        u \in SwapPolylines, w \in SwapPolylines }

SwapInit == fnIn \in SwapInputs /\ fnOut = None

SwapCall ==
    /\ fnOut = None
    /\ fnOut' = Some(shouldSwapPolylines(fnIn.routeDetail, fnIn.stationMap,
                                         fnIn.upPolyline, fnIn.downPolyline))
    /\ UNCHANGED fnIn
    /\ UNCHANGED <<snapVars, animVars, cacheVars, dirVars, pollVars>>

MaxHint == 4             \* hints run from -1 to MaxHint
MaxRadius == 2           \* radii run from -1 to MaxRadius

NearestPoints == { <<5, 5>>, <<15, 40>>, <<30, 30>>, <<-10, 20>>, <<20, 8>>, <<45, 15>> }

NearestPolylines ==
    { << <<0, 0>>, <<0, 30>>, <<30, 30>>, <<30, 60>> >>,
      << <<0, 0>>, <<40, 0>>, <<40, 10>>, <<0, 10>>, <<0, 20>>, <<40, 20>> >>,
      << <<10, 10>>, <<10, 10>>, <<30, 10>> >>,
      << <<0, 0>>, <<30, 30>> >>,
      << <<10, 10>> >>,
      << >> }

NearestInputs ==
    { [point |-> p, polyline |-> l, segmentHint |-> h, searchRadius |-> r] :
        p \in NearestPoints, l \in NearestPolylines,
        h \in { Some(n) : n \in -1..MaxHint },
        r \in {None} \cup { Some(n) : n \in -1..MaxRadius } }

NearestInit == fnIn \in NearestInputs /\ fnOut = None

\* The same point and polyline searched four times: by snapPointToPolyline
\* and by snapToPolyline, without options and with the hint and radius.
NearestCall ==
    /\ fnOut = None
    /\ fnOut' = Some([full |-> snapPointToPolyline(fnIn.point, fnIn.polyline, None, None),
                      hinted |-> snapPointToPolyline(fnIn.point, fnIn.polyline,
                                                     fnIn.segmentHint, fnIn.searchRadius),
                      fullPoly |-> snapToPolyline(fnIn.point, fnIn.polyline, None, None),
                      hintedPoly |-> snapToPolyline(fnIn.point, fnIn.polyline,
                                                    fnIn.segmentHint, fnIn.searchRadius)])
    /\ UNCHANGED fnIn
    /\ UNCHANGED <<snapVars, animVars, cacheVars, dirVars, pollVars>>
----------------------------------------------------------------------------
(* Calls of getDirection on loaded sequences with raw direction codes *)

\* Loaded route states (isReady is true) of two sibling variants; in some
\* of them a stop carries a raw updowncd that is neither 0 nor 1.
RawSequences ==
    { << [routeid |-> "V1", sequence |-> << SeqItem("S1", 1, 1), SeqItem("S2", 2, 1) >>],
         [routeid |-> "V2", sequence |-> << SeqItem("S1", 3, 2), SeqItem("S3", 4, 1),
                                            SeqItem("S1", 5, 1) >>] >>,
      << [routeid |-> "V1", sequence |-> << SeqItem("S1", 1, 1), SeqItem("S2", 2, 1) >>],
         [routeid |-> "V2", sequence |-> << SeqItem("S1", 3, 0), SeqItem("S3", 4, 0) >>] >>,
      << [routeid |-> "V1", sequence |-> << SeqItem("S1", 1, 1), SeqItem("S2", 2, 0),
                                            SeqItem("S3", 4, 3) >>] >>,
      << [routeid |-> "V1", sequence |-> << SeqItem("S1", 1, 2), SeqItem("S2", 2, 2) >>],
         [routeid |-> "V2", sequence |-> << SeqItem("S3", 3, -1), SeqItem("S1", 4, 0) >>] >> }

RawInputs ==
    { [st |-> [isReady |-> TRUE, sequences |-> s, of |-> Some("A")],
       nodeid |-> Some(n), nodeord |-> Some(o), routeid |-> r] :
        s \in RawSequences, n \in {"S1", "S2", "S3"}, o \in {1, 3, 4},
        r \in {None, Some("V1"), Some("V2")} }

RawInit == fnIn \in RawInputs /\ fnOut = None

RawCall ==
    /\ fnOut = None
    /\ fnOut' = Some(getDirection(fnIn.st, fnIn.nodeid, fnIn.nodeord, fnIn.routeid))
    /\ UNCHANGED fnIn
    /\ UNCHANGED <<snapVars, animVars, cacheVars, dirVars, pollVars>>

(* Calls of getDirection while some variants have reporting vehicles *)

\* reporting: the route-variant ids of the vehicles of the current bus
\* list, which is no argument of getDirection and no state of the hook.
ScopeInputs ==
    { [st |-> [isReady |-> TRUE, sequences |-> s, of |-> Some("A")],
       nodeid |-> Some(n), nodeord |-> Some(o), routeid |-> r, reporting |-> rep] :
        s \in RawSequences, n \in {"S1", "S2", "S3"}, o \in {1, 3, 4},
        r \in {None, Some("V1"), Some("V2")}, rep \in SUBSET {"V1", "V2"} }

ScopeInit == fnIn \in ScopeInputs /\ fnOut = None

\* One call; candidates and pool are the call's locals of Rule 2.
ScopeCall ==
    /\ fnOut = None
    /\ LET Locals(candidates) ==
               [candidates |-> candidates,
                pool |-> IF Len(candidates) = 0 THEN << >>
                         ELSE Pool(fnIn.st, candidates, fnIn.routeid),
                result |-> getDirection(fnIn.st, fnIn.nodeid, fnIn.nodeord, fnIn.routeid)]
       IN  fnOut' = Some(Locals(sequenceLookupMap(fnIn.st, TrimNode(Val(fnIn.nodeid)))))
    /\ UNCHANGED fnIn
    /\ UNCHANGED <<snapVars, animVars, cacheVars, dirVars, pollVars>>

(* Calls of interpolateAlongPathWithCache on enumerated paths *)

MaxProgressSteps == 10   \* progress runs over 0, 1/n, ..., 1

\* Paths of at least 2 waypoints, some with zero-length segments at the
\* start, in the middle and at the end, one of no length at all.
InterpPaths ==
    { << <<0, 0>>, <<0, 30>> >>,
      << <<0, 0>>, <<0, 30>>, <<30, 30>>, <<30, 60>> >>,
      << <<0, 0>>, <<0, 0>>, <<10, 0>> >>,
      << <<0, 0>>, <<10, 0>>, <<10, 0>> >>,
      << <<0, 0>>, <<10, 0>>, <<10, 0>>, <<10, 20>> >>,
      << <<5, 5>>, <<5, 5>>, <<5, 5>>, <<8, 9>> >>,
      << <<0, 0>>, <<3, 4>>, <<3, 4>>, <<3, 4>> >>,
      << <<0, 0>>, <<3, 4>>, <<0, 0>> >>,
      << <<7, 7>>, <<7, 7>> >> }

InterpInputs ==
    { [path |-> p, progress |-> (k * 1000) \div MaxProgressSteps] :
        p \in InterpPaths, k \in 0..MaxProgressSteps }

InterpInit == fnIn \in InterpInputs /\ fnOut = None

\* The tick's call: the distances are the ones precomputed for the path.
InterpCall ==
    /\ fnOut = None
    /\ LET With(pd) ==
               Some(interpolateAlongPathWithCache(fnIn.path, pd.distances, pd.totalDistance,
                                                  fnIn.progress))
       IN  fnOut' = With(precomputePathDistances(fnIn.path))
    /\ UNCHANGED fnIn
    /\ UNCHANGED <<snapVars, animVars, cacheVars, dirVars, pollVars>>

(* processRouteData: the split and the stop-based hint of one geometry *)

\* getPolylineMeta: the turn index of the first feature when it is a
\* finite number (None otherwise); the stop index map is left out.
getPolylineMeta(data) ==
    IF data.features = 0 THEN [turnIndex |-> None]
    ELSE [turnIndex |-> IF data.turn_idx # None /\ IsNumber(data.turn_idx)
                        THEN data.turn_idx ELSE None]

\* mergedUp / mergedDown of processRouteData
Merged(multi) == IF Len(multi) > 0 THEN multi[1] ELSE << >>

TurnInputs ==
    UNION { { [data |-> [features |-> 1, coordinates |-> GeoLine(k, 1), turn_idx |-> t],
               coordIndex |-> c, direction |-> d] :
                c \in 0..(k - 1), d \in {0, 1},
                t \in {None, NullTurn, NaNTurn}
                       \cup { Some(n) : n \in -1..(MaxCoords + 1) } } :
            k \in 2..MaxCoords }

TurnInit == fnIn \in TurnInputs /\ fnOut = None

\* The geometry is split, and a fix at the stop with raw coordinate index
\* coordIndex asks for the hint on the polyline of its direction (no swap).
TurnCall ==
    /\ fnOut = None
    /\ LET Hinted(split, line) ==
               Some([split |-> split,
                     lineLength |-> Len(line),
                     hint |-> getSegmentHint(Some(fnIn.coordIndex), fnIn.direction, Len(line),
                                             getPolylineMeta(fnIn.data).turnIndex, FALSE)])
           Of(split) ==
               Hinted(split, IF fnIn.direction = 1 THEN Merged(split.upPolyline)
                             ELSE Merged(split.downPolyline))
       IN  fnOut' = Of(transformPolyline(fnIn.data))
    /\ UNCHANGED fnIn
    /\ UNCHANGED <<snapVars, animVars, cacheVars, dirVars, pollVars>>
----------------------------------------------------------------------------
(* core/network/fetchAPI: one call, request by request *)

MaxRetries == 3

\* How one fetch settles: the response is ok and its body parses, the
\* response is ok and response.json() rejects, the response is not ok
\* (its text is read into an HttpError), or fetch or the reading of the
\* body rejects.
FetchOutcomes ==
    { [kind |-> "ok", status |-> 200, value |-> 7],
      [kind |-> "badJson", status |-> 200, value |-> 0],
      [kind |-> "http", status |-> 404, value |-> 0],
      [kind |-> "http", status |-> 503, value |-> 0],
      [kind |-> "network", status |-> 0, value |-> 0] }

\* options.retries and whether the base URL of the call is configured.
FetchInputs == [ retries : 0..MaxRetries, configured : BOOLEAN ]

NoResult == [kind |-> "none", status |-> 0, value |-> 0]
Returned(value) == [kind |-> "value", status |-> 0, value |-> value]
ThrewHttpError(status) == [kind |-> "HttpError", status |-> status, value |-> 0]
ThrewError == [kind |-> "Error", status |-> 0, value |-> 0]

\* The call's position: i is the loop counter, log the outcomes of the
\* requests issued so far, delays the number of delay(retryDelay) calls.
FetchState(phase, i, log, delays, result) ==
    [phase |-> phase, i |-> i, log |-> log, delays |-> delays, result |-> result]

\* A plausible slip: the delay is awaited after the last attempt as well.
Caught_alwaysDelays(s, retries, outcome) ==
    FetchState("delaying", s.i, Append(s.log, outcome), s.delays + 1, NoResult)

\* The catch block for a request that failed with outcome (l.391-405).
Caught(s, retries, outcome) ==
    IF s.i = retries - 1
    THEN FetchState("done", s.i, Append(s.log, outcome), s.delays,
                    IF outcome.kind = "http" THEN ThrewHttpError(outcome.status)
                    ELSE ThrewError)
    ELSE FetchState("delaying", s.i, Append(s.log, outcome), s.delays + 1, NoResult)

\* The loop test after i++ and the throw behind the loop (l.368, l.408).
LoopTest(i, retries, log, delays) ==
    IF i < retries THEN FetchState("fetching", i, log, delays, NoResult)
    ELSE FetchState("done", i, log, delays, ThrewError)

FetchInit == fnIn \in FetchInputs /\ fnOut = None

\* fetchAPI is called: the configuration check, then the first loop test.
FetchCall ==
    /\ fnOut = None
    /\ fnOut' = Some(IF ~fnIn.configured
                     THEN FetchState("done", 0, << >>, 0, ThrewError)
                     ELSE LoopTest(0, fnIn.retries, << >>, 0))
    /\ UNCHANGED fnIn
    /\ UNCHANGED <<snapVars, animVars, cacheVars, dirVars, pollVars>>

\* The pending request settles (l.369-390).
FetchSettled ==
    /\ fnOut # None
    /\ Val(fnOut).phase = "fetching"
    /\ \E outcome \in FetchOutcomes :
         fnOut' = Some(IF outcome.kind = "ok"
                       THEN FetchState("done", Val(fnOut).i, Append(Val(fnOut).log, outcome),
                                       Val(fnOut).delays, Returned(outcome.value))
                       ELSE Caught(Val(fnOut), fnIn.retries, outcome))
    /\ UNCHANGED fnIn
    /\ UNCHANGED <<snapVars, animVars, cacheVars, dirVars, pollVars>>

\* The retry delay elapses and the loop goes on.
FetchDelayed ==
    /\ fnOut # None
    /\ Val(fnOut).phase = "delaying"
    /\ fnOut' = Some(LoopTest(Val(fnOut).i + 1, fnIn.retries, Val(fnOut).log,
                              Val(fnOut).delays))
    /\ UNCHANGED fnIn
    /\ UNCHANGED <<snapVars, animVars, cacheVars, dirVars, pollVars>>
----------------------------------------------------------------------------
(* BusPollingService.ts: startPolling and stopPolling, with the timers and *)
(* the event listeners of the page                                          *)

MaxCalls == 5            \* startPolling and stopPolling calls of a run

TimerRoutes == { "A", "B" }

\* The service's three records, the page's active intervals (timers) and
\* registered event listeners (each closure has its own identity, id), the
\* next handle setInterval returns (an integer greater than zero), and
\* ghost: the calls made, and what the last call was and did.
NewService ==
    [ intervals |-> [r \in TimerRoutes |-> None],
      visibilityHandlers |-> [r \in TimerRoutes |-> None],
      pageShowHandlers |-> [r \in TimerRoutes |-> None],
      timers |-> {},
      listeners |-> {},
      nextHandle |-> 1,
      calls |-> 0,
      last |-> [op |-> "new", route |-> "A", wasPolling |-> FALSE, fetched |-> FALSE] ]

\* A plausible slip: the guard of startPolling is left out.
IsPolling_never(s, routeName) == FALSE

\* if (this.intervals[routeName]): the handle is there and truthy.
IsPolling(s, routeName) ==
    s.intervals[routeName] # None /\ Val(s.intervals[routeName]) # 0

\* startPolling(routeName); fetched says that fetchFn() was called.
startPolling(s, routeName) ==
    IF IsPolling(s, routeName)
    THEN [s EXCEPT !.calls = @ + 1,
                   !.last = [op |-> "start", route |-> routeName, wasPolling |-> TRUE,
                             fetched |-> FALSE]]
    ELSE [s EXCEPT !.intervals[routeName] = Some(s.nextHandle),
                   !.visibilityHandlers[routeName] = Some(s.nextHandle),
                   !.pageShowHandlers[routeName] = Some(s.nextHandle),
                   !.timers = @ \cup { [id |-> s.nextHandle, route |-> routeName] },
                   !.listeners = @ \cup { [id |-> s.nextHandle, route |-> routeName,
                                           type |-> "visibilitychange"],
                                          [id |-> s.nextHandle, route |-> routeName,
                                           type |-> "pageshow"] },
                   !.nextHandle = @ + 1,
                   !.calls = @ + 1,
                   !.last = [op |-> "start", route |-> routeName,
                             wasPolling |-> s.intervals[routeName] # None,
                             fetched |-> TRUE]]

\* The three blocks of stopPolling(routeName).
StopInterval(s, routeName) ==
    IF IsPolling(s, routeName)
    THEN [s EXCEPT !.timers = { t \in @ : t.id # Val(s.intervals[routeName]) },
                   !.intervals[routeName] = None]
    ELSE s

StopVisibility(s, routeName) ==
    IF s.visibilityHandlers[routeName] # None
    THEN [s EXCEPT !.listeners = { l \in @ : ~(l.type = "visibilitychange"
                                              /\ l.id = Val(s.visibilityHandlers[routeName])) },
                   !.visibilityHandlers[routeName] = None]
    ELSE s

StopPageShow(s, routeName) ==
    IF s.pageShowHandlers[routeName] # None
    THEN [s EXCEPT !.listeners = { l \in @ : ~(l.type = "pageshow"
                                              /\ l.id = Val(s.pageShowHandlers[routeName])) },
                   !.pageShowHandlers[routeName] = None]
    ELSE s

stopPolling(s, routeName) ==
    StopPageShow(StopVisibility(StopInterval(s, routeName), routeName), routeName)

TimerInit == fnIn = None /\ fnOut = Some(NewService)

\* A caller (HomePage's effect, or anyone holding the service) starts the
\* polling of a route.
TimerStart ==
    /\ Val(fnOut).calls < MaxCalls
    /\ \E r \in TimerRoutes : fnOut' = Some(startPolling(Val(fnOut), r))
    /\ UNCHANGED fnIn
    /\ UNCHANGED <<snapVars, animVars, cacheVars, dirVars, pollVars>>

\* stopPolling(routeName), directly or through the function startPolling
\* returned.
TimerStop ==
    /\ Val(fnOut).calls < MaxCalls
    /\ \E r \in TimerRoutes :
         fnOut' = Some([stopPolling(Val(fnOut), r)
                          EXCEPT !.calls = @ + 1,
                                 !.last = [op |-> "stop", route |-> r,
                                           wasPolling |-> Val(fnOut).intervals[r] # None,
                                           fetched |-> FALSE]])
    /\ UNCHANGED fnIn
    /\ UNCHANGED <<snapVars, animVars, cacheVars, dirVars, pollVars>>
----------------------------------------------------------------------------
(* BusPollingService.ts: subscribe and fetchAndUpdate, with the calls the  *)
(* listeners receive                                                        *)

\* Route "A" has two variants in the route map, route "N" is not in it.
VehicleIds(routeName) == IF routeName = "A" THEN << "V1", "V2" >> ELSE << >>

\* The listener pairs (onData, onError) of the subscribers.
ListenerIds == { 1, 2 }

\* What getRouteMap() does: it resolves ("ok") or rejects with a message.
RouteMapResults == { "ok", "HTTP 500", "ERR:INVALID_ROUTE" }

\* What getBusLocationData does for the two variants: it rejects (None) or
\* resolves with buses; routeid "" is a bus without the field.
LocationResults ==
    { << r1, r2 >> :
        r1 \in { None, Some(<< >>), Some(<< [vehicleno |-> "b1", routeid |-> ""] >>) },
        r2 \in { None, Some(<< >>),
                 Some(<< [vehicleno |-> "b2", routeid |-> "V9"],
                         [vehicleno |-> "b3", routeid |-> ""] >>) } }

VALID_ERROR_CODES == { "ERR:NONE_RUNNING", "ERR:NETWORK", "ERR:INVALID_ROUTE" }

\* The service's cache and listener sets (a Set keeps insertion order; None
\* is a route without a set), the callbacks the last operation made, in
\* order (log), and, ghost, what the last operation was.
NewListeners ==
    [ cache |-> [r \in PollRoutes |-> None],
      dataListeners |-> [r \in PollRoutes |-> None],
      errorListeners |-> [r \in PollRoutes |-> None],
      log |-> << >>,
      last |-> [op |-> "new", route |-> "N", routeMap |-> "ok", results |-> << None, None >>] ]

\* this.dataListeners[routeName]?.forEach(cb => cb(data))
DataCalls(listeners, data) ==
    IF listeners = None THEN << >>
    ELSE [i \in 1..Len(Val(listeners)) |->
            [listener |-> Val(listeners)[i], channel |-> "data", data |-> data, error |-> ""]]

\* this.errorListeners[routeName]?.forEach(cb => cb(error))
ErrorCalls(listeners, error) ==
    IF listeners = None THEN << >>
    ELSE [i \in 1..Len(Val(listeners)) |->
            [listener |-> Val(listeners)[i], channel |-> "error", data |-> << >>, error |-> error]]

\* routeid: bus.routeid || routeId
InjectRouteId(buses, routeId) ==
    [i \in 1..Len(buses) |->
       [buses[i] EXCEPT !.routeid = IF buses[i].routeid # "" THEN @ ELSE routeId]]

\* fulfilled.flatMap(r => r.value) over the settled results.
RECURSIVE FlatFulfilled(_, _, _)
FlatFulfilled(results, vehicleIds, i) ==
    IF i > Len(vehicleIds) THEN << >>
    ELSE (IF results[i] = None THEN << >> ELSE InjectRouteId(Val(results[i]), vehicleIds[i]))
         \o FlatFulfilled(results, vehicleIds, i + 1)

\* The message of the error the try block throws, if it throws.
Thrown(routeName, routeMap, results) ==
    IF routeMap # "ok" THEN Some(routeMap)
    ELSE IF Len(VehicleIds(routeName)) = 0 THEN Some("Route ID not found in RouteMap.")
    ELSE IF \A i \in 1..Len(VehicleIds(routeName)) : results[i] = None
         THEN Some("Failed to fetch BusLocationData for all vehicle IDs.")
    ELSE None

\* A plausible slip: an empty list is reported without an error.
SuccessError_alwaysNull(buses) == "null"

\* The error the error listeners receive after a fetch that succeeded.
SuccessError(buses) == IF Len(buses) = 0 THEN "ERR:NONE_RUNNING" ELSE "null"

\* The error code of the catch block.
CatchError(message) == IF message \in VALID_ERROR_CODES THEN message ELSE "ERR:NETWORK"

\* The part of fetchAndUpdate after its awaits, with the buses to store.
StoreThenNotify(s, routeName, buses, error) ==
    [s EXCEPT !.cache[routeName] = Some(buses),
              !.log = DataCalls(s.dataListeners[routeName], buses)
                      \o ErrorCalls(s.errorListeners[routeName], error)]

fetchAndUpdate(s, routeName, routeMap, results) ==
    IF Thrown(routeName, routeMap, results) = None
    THEN StoreThenNotify(s, routeName, FlatFulfilled(results, VehicleIds(routeName), 1),
                         SuccessError(FlatFulfilled(results, VehicleIds(routeName), 1)))
    ELSE StoreThenNotify(s, routeName, << >>,
                         CatchError(Val(Thrown(routeName, routeMap, results))))

\* listeners.add(l), creating the set first when there is none.
SetAdd(listeners, l) == IF listeners = None THEN Some(<< l >>) ELSE Some(Append(Val(listeners), l))

\* listeners?.delete(l), and the empty set is deleted.
SetDelete(listeners, l) ==
    IF listeners = None THEN None
    ELSE IF SelectSeq(Val(listeners), LAMBDA x : x # l) = << >> THEN None
    ELSE Some(SelectSeq(Val(listeners), LAMBDA x : x # l))

subscribe(s, routeName, l) ==
    [s EXCEPT !.dataListeners[routeName] = SetAdd(@, l),
              !.errorListeners[routeName] = SetAdd(@, l),
              !.log = IF s.cache[routeName] # None
                      THEN DataCalls(Some(<< l >>), Val(s.cache[routeName]))
                      ELSE << >>,
              !.last = [@ EXCEPT !.op = "subscribe", !.route = routeName]]

unsubscribe(s, routeName, l) ==
    [s EXCEPT !.dataListeners[routeName] = SetDelete(@, l),
              !.errorListeners[routeName] = SetDelete(@, l),
              !.log = << >>,
              !.last = [@ EXCEPT !.op = "unsubscribe", !.route = routeName]]

Subscribed(s, routeName) ==
    IF s.dataListeners[routeName] = None THEN {}
    ELSE { Val(s.dataListeners[routeName])[i] : i \in 1..Len(Val(s.dataListeners[routeName])) }

ListenInit == fnIn = None /\ fnOut = Some(NewListeners)

\* A component subscribes with a new pair of callbacks.
ListenSubscribe ==
    /\ \E r \in PollRoutes, l \in ListenerIds :
         /\ \A q \in PollRoutes : l \notin Subscribed(Val(fnOut), q)
         /\ fnOut' = Some(subscribe(Val(fnOut), r, l))
    /\ UNCHANGED fnIn
    /\ UNCHANGED <<snapVars, animVars, cacheVars, dirVars, pollVars>>

\* The function subscribe returned is called.
ListenUnsubscribe ==
    /\ \E r \in PollRoutes :
         \E l \in Subscribed(Val(fnOut), r) : fnOut' = Some(unsubscribe(Val(fnOut), r, l))
    /\ UNCHANGED fnIn
    /\ UNCHANGED <<snapVars, animVars, cacheVars, dirVars, pollVars>>

\* A fetchAndUpdate call of a route completes.
ListenPoll ==
    /\ \E r \in PollRoutes, routeMap \in RouteMapResults, results \in LocationResults :
         fnOut' = Some([fetchAndUpdate(Val(fnOut), r, routeMap, results)
                          EXCEPT !.last = [op |-> "poll", route |-> r, routeMap |-> routeMap,
                                           results |-> results]])
    /\ UNCHANGED fnIn
    /\ UNCHANGED <<snapVars, animVars, cacheVars, dirVars, pollVars>>
----------------------------------------------------------------------------
(* The Snap Engine's runs *)

SnapInit == snapIn \in SnapInputs /\ snapOut = None

\* The marker layer snaps the fix of the poll.
SnapFix ==
    /\ snapOut = None
    /\ snapOut' = Some(getSnappedPosition(snapIn))
    /\ UNCHANGED snapIn
    /\ UNCHANGED <<animVars, cacheVars, dirVars, pollVars, fnVars>>

\* The next poll delivers another fix of the same vehicle.
NextFix ==
    /\ snapOut # None
    /\ \E g \in SnapFixes, d \in SnapDirections :
         snapIn' = [snapIn EXCEPT !.gps = g, !.apiDirection = d]
    /\ snapOut' = None
    /\ UNCHANGED <<animVars, cacheVars, dirVars, pollVars, fnVars>>

----------------------------------------------------------------------------
(* Specifications.  Each one runs one component and holds the others still. *)

SnapStill ==
    /\ snapIn = [ gps |-> <<0, 0>>, nodeid |-> "", nodeord |-> 1, apiDirection |-> None,
                  upPolyline |-> <<>>, downPolyline |-> <<>>, stopIndexMap |-> None,
                  turnIndex |-> None, isSwapped |-> FALSE, snapIndexRange |-> 0 ]
    /\ snapOut = None

AnimStill ==
    /\ props = [ target |-> <<0, 0>>, angle |-> 0, polyline |-> <<>>, snap |-> FALSE,
                 hint |-> None, range |-> None, resetKey |-> 0, duration |-> DurationMs,
                 marker |-> "none" ]
    /\ rendered = State(<<0, 0>>, 0)
    /\ refs = InitRefs(props)
    /\ frames = {}
    /\ nextFrameId = 1
    /\ hasCleanup = FALSE
    /\ mounted = "unmounted"
    /\ clock = 0
    /\ marker = rendered
    /\ obs = InitObs

SnapStart == SnapInit /\ AnimStill /\ CacheInit /\ DirStill /\ PollStill /\ FnStill
SnapNext == SnapFix \/ NextFix
SpecSnap == SnapStart /\ [][SnapNext]_vars

AnimStart == AnimInit /\ SnapStill /\ CacheInit /\ DirStill /\ PollStill /\ FnStill
AnimNext == Mount \/ Render \/ Tick \/ Unmount
SpecAnim == AnimStart /\ [][AnimNext]_vars

\* The steps of Tick, told by what only Tick does: a frame is pending and
\* the clock advances by a frame step.
FrameRuns == frames # {} /\ clock' \in { clock + step : step \in FrameSteps }

\* The browser runs every requested frame callback that is not cancelled.
SpecAnimFair == AnimStart /\ [][AnimNext]_vars /\ WF_clock(FrameRuns)

CacheStart == CacheInit /\ SnapStill /\ AnimStill /\ DirStill /\ PollStill /\ FnStill
CacheNext ==
    \/ DoGet \/ DoSet \/ DoDelete \/ DoClear \/ DoClearExcept \/ DoGetOrFetch
    \/ ProducerSettles \/ RequestFinally \/ DateAdvances
SpecCache == CacheStart /\ [][CacheNext]_vars

DirStart == DirInit /\ SnapStill /\ AnimStill /\ CacheInit /\ PollStill /\ FnStill
DirNext ==
    \/ DirRender \/ DirLoadEffect \/ DirInfoLoaded \/ DirDetailsLoaded
    \/ DirDetailsFailed \/ DirResolve
SpecDir == DirStart /\ [][DirNext]_vars


Others == SnapStill /\ AnimStill /\ CacheInit /\ DirStill

PollBegin == PollInit /\ Others /\ FnStill
PollNext ==
    \/ PollSubscribe \/ PollUnsubscribe \/ PollStart \/ PollStop
    \/ PollIntervalTick \/ PollVisible \/ PollPageShow
    \/ PollRouteMapLoaded \/ PollLocationsSettled
    \/ PollClearOtherCaches \/ PollCleanup
SpecPoll == PollBegin /\ [][PollNext]_vars

TransformStart == TransformInit /\ Others /\ PollStill
SpecTransform == TransformStart /\ [][TransformCall]_vars

SwapStart == SwapInit /\ Others /\ PollStill
SpecSwap == SwapStart /\ [][SwapCall]_vars

NearestStart == NearestInit /\ Others /\ PollStill
SpecNearest == NearestStart /\ [][NearestCall]_vars

RawStart == RawInit /\ Others /\ PollStill
SpecRaw == RawStart /\ [][RawCall]_vars

InterpStart == InterpInit /\ Others /\ PollStill
SpecInterp == InterpStart /\ [][InterpCall]_vars

TurnStart == TurnInit /\ Others /\ PollStill
SpecTurn == TurnStart /\ [][TurnCall]_vars

ScopeStart == ScopeInit /\ Others /\ PollStill
ScopeNext == ScopeCall
SpecScope == ScopeStart /\ [][ScopeNext]_vars

FetchStart == FetchInit /\ Others /\ PollStill
FetchNext == FetchCall \/ FetchSettled \/ FetchDelayed
SpecFetch == FetchStart /\ [][FetchNext]_vars

TimerBegin == TimerInit /\ Others /\ PollStill
TimerNext == TimerStart \/ TimerStop
SpecTimer == TimerBegin /\ [][TimerNext]_vars

ListenStart == ListenInit /\ Others /\ PollStill
ListenNext == ListenSubscribe \/ ListenUnsubscribe \/ ListenPoll
SpecListen == ListenStart /\ [][ListenNext]_vars
----------------------------------------------------------------------------
(* Properties of the Motion Animator (SpecAnim) *)

\* A commit after a re-render.
IsRenderStep == obs'.renders = obs.renders + 1

\* Snapping is on for the arguments p.
SnappingOn(p) == p.snap /\ Len(p.polyline) >= 2

\* A re-render that brings a new fix, with another raw position, on the
\* route the animator already follows with snapping on.
NewFixOnRoute ==
    /\ IsRenderStep
    /\ props'.target # props.target
    /\ props'.polyline = props.polyline
    /\ props'.resetKey = props.resetKey
    /\ SnappingOn(props')

\* Where the current position and the new fix snap on the polyline.
StartSnapped == snapPointToPolyline(refs.currentPos, props'.polyline,
                                    refs.prevSnapIndex, props'.range)
EndSnapped == snapPointToPolyline(props'.target, props'.polyline,
                                  props'.hint, props'.range)

\* e is behind s: an earlier segment, or the same segment with an offset
\* smaller by more than 1/1000 (on one segment the offsets tNum / tDen of
\* s and e have the same denominator).
SnapsBehind(s, e) ==
    \/ e.segmentIndex < s.segmentIndex
    \/ /\ e.segmentIndex = s.segmentIndex
       /\ e.tDen = s.tDen
       /\ e.tNum * 1000 < s.tNum * 1000 - s.tDen

\* The squared distance, in metres, between two positions.
MetersSq(a, b) == (a[1] - b[1]) * (a[1] - b[1]) + (a[2] - b[2]) * (a[2] - b[2])

\* C1: when a new fix with another raw position arrives while a frame is
\* pending, no frame of the running loop stays pending, and if an animation
\* starts its path begins at the position the last tick wrote (snapped on
\* the polyline when snapping is on), so not at the old path's start or end
\* unless the bus is there.
C1_RestartFromCurrent ==
    [][ (IsRenderStep /\ props'.target # props.target /\ frames # {})
          => /\ frames \cap frames' = {}
             /\ obs'.kind = "start"
                  => refs'.animationPath[1]
                       = IF SnappingOn(props') THEN StartSnapped.position
                         ELSE refs.currentPos ]_vars

\* C1 happens: an animation that had ticked was superseded by a new one
\* whose path starts neither at the old start nor at the old end.
C1_Witness ==
    /\ obs.kind = "start"
    /\ obs.pre.running
    /\ obs.pre.ticks >= 1
    /\ refs.animationPath[1] # obs.pre.start
    /\ refs.animationPath[1] # obs.pre.end

\* The recorded end of the animation.
EndState == State(refs.animationEndPos, refs.animationEndAngle)

\* C2: after the tick on which the raw progress reaches 1, the current
\* position and heading, the emitted state and the last marker write are
\* the recorded end position and heading, no frame is pending and the
\* frame handle is null.
C2_CompletionIsExact ==
    obs.kind = "complete"
      => /\ State(refs.currentPos, refs.currentAngle) = EndState
         /\ rendered = EndState
         /\ obs.emitted # <<>> /\ obs.emitted[Len(obs.emitted)] = EndState
         /\ props.marker # "none"
              => obs.wrote # <<>> /\ obs.wrote[Len(obs.wrote)] = EndState
         /\ props.marker = "ok" => marker = EndState
         /\ frames = {}
         /\ refs.animationRef = None

\* C2 happens: an animation along several segments completed with a marker.
C2_Witness ==
    /\ obs.kind = "complete"
    /\ props.marker = "ok"
    /\ Len(refs.animationPath) > 2
    /\ obs.ticks >= 2

\* C3: with snapping on, a new fix that snaps behind the start, no more
\* than 12 m away from it, changes neither the current nor the emitted
\* position and heading, writes no marker and emits no state.
C3_JitterIgnored ==
    [][ (/\ NewFixOnRoute
         /\ SnapsBehind(StartSnapped, EndSnapped)
         /\ MetersSq(StartSnapped.position, EndSnapped.position) <= 12 * 12)
          => /\ refs'.currentPos = refs.currentPos
             /\ refs'.currentAngle = refs.currentAngle
             /\ rendered' = rendered
             /\ marker' = marker
             /\ obs'.emitted = <<>>
             /\ obs'.wrote = <<>> ]_vars

\* C3 happens: a fix 10 m behind the current position was ignored.
C3_Witness ==
    /\ obs.kind = "jitter"
    /\ obs.emitted = <<>>
    /\ props.target = <<-3, 15>>
    /\ refs.currentPos = <<0, 25>>

\* C4: with snapping on, a new fix that snaps behind the start, more than
\* 12 m away from it, sets the current and the emitted position and heading
\* to the end snapped ones in that step, and leaves no frame pending.
C4_BackwardJumpTeleports ==
    [][ (/\ NewFixOnRoute
         /\ SnapsBehind(StartSnapped, EndSnapped)
         /\ MetersSq(StartSnapped.position, EndSnapped.position) > 12 * 12)
          => /\ refs'.currentPos = EndSnapped.position
             /\ refs'.currentAngle = EndSnapped.angle
             /\ rendered' = State(EndSnapped.position, EndSnapped.angle)
             /\ obs'.emitted = <<State(EndSnapped.position, EndSnapped.angle)>>
             /\ frames' = {} ]_vars

\* C4 happens: the bus jumped back while an animation was running.
C4_Witness ==
    /\ obs.kind = "teleport"
    /\ obs.pre.running
    /\ refs.currentPos = <<0, 5>>
    /\ rendered.position = <<0, 5>>
    /\ frames = {}

\* C5: a re-render with another reset key leaves no frame pending and a
\* null frame handle, starts no animation, and sets the current and the
\* emitted position to the target, snapped on the polyline of that render
\* when snapping is on.
C5_ResetSnapsAtOnce ==
    [][ (IsRenderStep /\ props'.resetKey # props.resetKey)
          => /\ frames' = {}
             /\ refs'.animationRef = None
             /\ obs'.kind # "start"
             /\ refs'.currentPos
                  = IF SnappingOn(props') THEN EndSnapped.position ELSE props'.target
             /\ rendered'.position = refs'.currentPos
             /\ obs'.emitted # <<>> ]_vars

\* C5 happens: the route changed while an animation was running and the
\* bus was put on the new polyline.
C5_Witness ==
    /\ obs.reset
    /\ obs.pre.running
    /\ props.polyline = PolyB
    /\ props.snap
    /\ refs.currentPos # obs.pre.pos
    /\ refs.currentPos # props.target

\* C6: at most one frame is pending, it belongs to the animation that was
\* not cancelled and its id is the frame handle; no frame of a cancelled
\* animation has run; after the unmount no frame is pending.
C6_NoDanglingFrames ==
    /\ Cardinality(frames) <= 1
    /\ \A f \in frames : f.gen = obs.live /\ refs.animationRef = Some(f.id)
    /\ ~obs.ranDead
    /\ mounted = "unmounted" => frames = {}

\* C6 happens: the component unmounted while a frame was pending.
C6_Witness ==
    /\ obs.kind = "unmount"
    /\ obs.pre.running
    /\ obs.pre.ticks >= 1
    /\ frames = {}

\* C7: the first tick and the completion tick of an animation emit a state.
C7_FirstAndLastTickEmitted ==
    (obs.kind \in {"tick", "complete"} /\ (obs.ticks = 1 \/ obs.kind = "complete"))
      => obs.emitted # <<>>

----------------------------------------------------------------------------
(* Properties of the CacheManager (SpecCache) *)

\* The producer invocations for key k whose promise has not settled.
Producing(k) == {r \in inflight : r.key = k /\ r.phase = "fetching"}

\* C8: for every key at most one producer invocation is in flight.
C8_OneProducerPerKey ==
    \A k \in CacheKeys : Cardinality(Producing(k)) <= 1

\* C9: a set that evicts removes the least recently accessed entry, and
\* the cache never holds more than maxSize entries.
C9_EvictsLeastRecentlyUsed ==
    /\ Cardinality(DOMAIN cache) <= MaxSize
    /\ cobs.evicted # None => cobs.evicted = cobs.lru

----------------------------------------------------------------------------
(* Properties of the Snap Engine (SpecSnap) *)

\* The projection of the fix onto the polyline of direction d.
ProjectionOn(d) ==
    createCandidate(snapIn, IF d = 1 THEN snapIn.upPolyline ELSE snapIn.downPolyline, d)

\* C10: when the resolver's direction is d and the projection onto the
\* polyline of d is within 50 m, the result is that projection with
\* direction d.
C10_TrustsResolvedDirection ==
    \A d \in {0, 1} :
      (snapOut # None /\ snapIn.apiDirection = Some(d) /\ IsValidCandidate(ProjectionOn(d)))
        => /\ Val(snapOut).position = Val(ProjectionOn(d)).position
           /\ Val(snapOut).direction = Some(d)

\* C10 happens: the resolver said 1, the up line is 30 m away, the down
\* line 10 m, and the result is on the up line.
C10_Witness ==
    /\ snapOut # None
    /\ snapIn.apiDirection = Some(1)
    /\ IsValidCandidate(ProjectionOn(1))
    /\ IsValidCandidate(ProjectionOn(0))
    /\ Val(ProjectionOn(0)).distSq < Val(ProjectionOn(1)).distSq
    /\ Val(snapOut).direction = Some(1)
    /\ Val(snapOut).position = Val(ProjectionOn(1)).position


\* Neither directional polyline gives a projection within 50 m (a polyline
\* that is missing or has fewer than 2 points gives none).
OffRoute == ~IsValidCandidate(ProjectionOn(1)) /\ ~IsValidCandidate(ProjectionOn(0))

\* C11: when neither polyline yields a projection within 50 m, the result
\* is the raw fix position, unmodified, with no segment index.
C11_OffRouteReturnsRawFix ==
    (snapOut # None /\ OffRoute)
      => /\ Val(snapOut).position = snapIn.gps
         /\ Val(snapOut).segmentIndex = None

\* C11 happens: both polylines are usable, the fix projects onto both of
\* them at another place, further than 50 m, and the raw fix came back.
C11_Witness ==
    /\ snapOut # None
    /\ OffRoute
    /\ IsSome(ProjectionOn(1)) /\ IsSome(ProjectionOn(0))
    /\ Val(ProjectionOn(1)).position # snapIn.gps
    /\ Val(ProjectionOn(0)).position # snapIn.gps
    /\ Val(snapOut).position = snapIn.gps
    /\ Val(snapOut).segmentIndex = None

\* C12: when the resolver returned unresolved and the fix is off-route, the
\* direction of the result is unresolved, not inbound (0).
C12_UnresolvedStaysUnresolved ==
    (snapOut # None /\ snapIn.apiDirection = None /\ OffRoute)
      => Val(snapOut).direction = None

----------------------------------------------------------------------------
(* Properties of the Direction Resolver (SpecDir) *)

\* The last step was a getDirection call with a stop id that trims to id.
ResolvedStop(id) ==
    /\ dirOut # None
    /\ Val(dirOut).nodeid # None
    /\ TrimNode(Val(Val(dirOut).nodeid)) = id

\* C13 as stated: for a stop id of the always-outbound list the result is
\* outbound (1), whatever else holds.
C13_OverrideAlwaysOutbound ==
    \A id \in ALWAYS_UPWARD_NODEIDS :
        ResolvedStop(id) => Val(dirOut).result = Some(1)

\* C13 amended: once the hook is ready and the observed order is a finite
\* number, the result for a stop id of the always-outbound list is
\* outbound (1), whatever the loaded sequences, the order and the
\* route-variant id are.
C13_OverrideOnceReady ==
    \A id \in ALWAYS_UPWARD_NODEIDS :
        (ResolvedStop(id) /\ dirFn.isReady /\ Val(dirOut).nodeord # None)
          => Val(dirOut).result = Some(1)

\* C13 happens: the loaded sequence lists the stop as inbound (0), with
\* another order than observed, and the call returned outbound.
C13_Witness ==
    /\ ResolvedStop("U")
    /\ dirFn.isReady
    /\ Len(CandidatesOf(dirFn.sequences, "U", 1, 1)) > 0
    /\ CandidatesOf(dirFn.sequences, "U", 1, 1)[1].updowncd = 0
    /\ Val(dirOut).nodeord = Some(4)
    /\ Val(dirOut).routeid = Some("ZZ")
    /\ Val(dirOut).result = Some(1)

\* The candidate pool of the last call.
CallPool ==
    Pool(dirFn, sequenceLookupMap(dirFn, TrimNode(Val(Val(dirOut).nodeid))),
         Val(dirOut).routeid)

\* C14: the chosen candidate has the observed order when a candidate of the
\* pool has it; otherwise its order difference is the least of the pool and
\* its order the smallest among the candidates with that difference.
C14_ExactThenClosestThenSmaller ==
    (dirOut # None /\ Val(dirOut).match # None)
      => LET Chosen(pool, m, ord) ==
                 /\ \E i \in 1..Len(pool) : pool[i] = m
                 /\ IF \E i \in 1..Len(pool) : pool[i].nodeord = ord
                    THEN m.nodeord = ord
                    ELSE \A i \in 1..Len(pool) :
                           \/ Abs(m.nodeord - ord) < Abs(pool[i].nodeord - ord)
                           \/ /\ Abs(m.nodeord - ord) = Abs(pool[i].nodeord - ord)
                              /\ m.nodeord <= pool[i].nodeord
         IN  Chosen(CallPool, Val(Val(dirOut).match), Val(Val(dirOut).nodeord))

\* C14 happens: two candidates are equally close to the observed order, the
\* one with the larger order comes first in the pool, and the one with the
\* smaller order was chosen.
C14_Witness ==
    /\ dirOut # None
    /\ Val(dirOut).match # None
    /\ \E i, j \in 1..Len(CallPool) :
         /\ i < j
         /\ CallPool[j] = Val(Val(dirOut).match)
         /\ CallPool[i].nodeord > CallPool[j].nodeord
         /\ Abs(CallPool[i].nodeord - Val(Val(dirOut).nodeord))
              = Abs(CallPool[j].nodeord - Val(Val(dirOut).nodeord))
         /\ CallPool[j].nodeord # Val(Val(dirOut).nodeord)

\* The stop id of the last call is missing or blank.
BlankStop ==
    \/ Val(dirOut).nodeid = None
    \/ TrimNode(Val(Val(dirOut).nodeid)) = ""

\* No loaded sequence entry matches the trimmed stop id of the last call.
NoEntryMatches ==
    /\ ~BlankStop
    /\ \A v \in 1..Len(dirFn.sequences) :
         \A i \in 1..Len(dirFn.sequences[v].sequence) :
            dirFn.sequences[v].sequence[i].nodeid # TrimNode(Val(Val(dirOut).nodeid))

\* C15 as stated: the result is unresolved whenever the sequences are not
\* loaded, the stop id is missing or blank, or no loaded entry matches it.
C15_UnresolvedWithoutData ==
    (dirOut # None /\ (~dirFn.isReady \/ BlankStop \/ NoEntryMatches))
      => Val(dirOut).result = None

\* C15 amended: the result is unresolved whenever the hook is not ready,
\* the stop id is missing or blank, or no loaded entry matches a stop id
\* that is not in the always-outbound list.
C15_UnresolvedUnlessOverride ==
    (dirOut # None
       /\ \/ ~dirFn.isReady
          \/ BlankStop
          \/ /\ NoEntryMatches
             /\ TrimNode(Val(Val(dirOut).nodeid)) \notin ALWAYS_UPWARD_NODEIDS)
      => Val(dirOut).result = None

\* C15 happens: the load of a route the route map does not hold has ended,
\* the hook is not ready, and a call for a configured stop came back
\* unresolved.
C15_Witness ==
    /\ dirOut # None
    /\ dirRoute = "N"
    /\ dirLoads = {}
    /\ ~dirEffect
    /\ ~dirFn.isReady
    /\ Val(dirOut).nodeid = Some("U")
    /\ Val(dirOut).nodeord = Some(1)
    /\ Val(dirOut).result = None

\* C16: a call that resolves from loaded sequences uses the sequences of
\* the route the hook was last rendered with.
C16_NoStaleRouteData ==
    (dirOut # None /\ Val(dirOut).match # None) => dirFn.of = Some(dirRoute)

\* C17: for each route, a fix-set never replaces the fix-set of a fetch
\* that was issued later: the stored fix-sets follow the order of issue.
C17_StoredInIssueOrder ==
    [][\A r \in PollRoutes :
          (pollCache[r] # None /\ pollCache'[r] # None)
            => Val(pollCache'[r]).of >= Val(pollCache[r]).of]_vars

\* The whole outbound polyline followed by the inbound polyline without
\* its first point; a polyline the result does not hold counts as empty.
Reassembled(split) ==
    LET Line(multi) == IF multi = << >> THEN << >> ELSE multi[1]
        Rest(line) == IF line = << >> THEN << >> ELSE Tail(line)
    IN  Line(split.upPolyline) \o Rest(Line(split.downPolyline))

\* C18: for every coordinate sequence and every turn index, the split
\* re-concatenated gives back the coordinate sequence.
C18_SplitReassembles ==
    (fnOut # None /\ fnIn.features > 0 /\ fnIn.turn_idx # None /\ IsNumber(fnIn.turn_idx))
      => Reassembled(Val(fnOut)) = toLatLngCoords(fnIn.coordinates)

\* The stops the heuristic measures: the sample of the stops labelled cd.
MeasuredStops(cd) ==
    sampleCoordinates(StopsOf(Val(fnIn.routeDetail), Val(fnIn.stationMap), cd, 1))

\* alt / n <= 0.9 * (same / n), for totals over the same n stops.
AtMost90Percent(alt, same) == 10 * alt <= 9 * same

\* C19: a swap is concluded only if the measured outbound stops' mean
\* squared distance to the inbound polyline is at most 90% of theirs to
\* the outbound polyline, and the measured inbound stops' to the outbound
\* polyline at most 90% of theirs to the inbound polyline.
C19_SwapNeedsBothDirections ==
    (fnOut = Some(TRUE))
      => /\ fnIn.routeDetail # None /\ fnIn.stationMap # None
         /\ AtMost90Percent(TotalDistSq(MeasuredStops(1), fnIn.downPolyline, 1),
                            TotalDistSq(MeasuredStops(1), fnIn.upPolyline, 1))
         /\ AtMost90Percent(TotalDistSq(MeasuredStops(0), fnIn.upPolyline, 1),
                            TotalDistSq(MeasuredStops(0), fnIn.downPolyline, 1))

\* C19 happens: the polylines are mislabelled, more outbound stops than
\* the sample takes are known, and a swap is concluded.
C19_Witness ==
    /\ fnOut = Some(TRUE)
    /\ fnIn.routeDetail = Some(StopSequence(MaxStops, FALSE))
    /\ fnIn.stationMap = Some(Stations(38, 38, 3))
    /\ fnIn.upPolyline = << <<0, 0>>, <<0, 100>> >>
    /\ fnIn.downPolyline = << <<40, 100>>, <<40, 0>> >>
    /\ Len(MeasuredStops(1)) < MaxStops

\* The window of segments a hint and a radius select (hint and radius of
\* the call, polyline of n >= 2 points).
WindowOf(n, hint, searchRadius) ==
    LET radius == IF searchRadius = None THEN 0 ELSE Max(0, Val(searchRadius))
        center == Max(0, Min(Val(hint), n - 2))
    IN  Max(0, center - radius) .. Min(n - 2, center + radius)

SameSnap(a, b) ==
    /\ a.position = b.position
    /\ a.segmentIndex = b.segmentIndex
    /\ a.tNum * b.tDen = b.tNum * a.tDen

\* C20: when the window of the hint holds the segment the full scan
\* selects, the hinted search returns the position, segment index and
\* offset of the full scan, in geoUtils and in polyUtils alike.
C20_WindowedEqualsFullScan ==
    (fnOut # None /\ Len(fnIn.polyline) >= 2
       /\ Val(fnOut).full.segmentIndex
            \in WindowOf(Len(fnIn.polyline), fnIn.segmentHint, fnIn.searchRadius))
      => /\ SameSnap(Val(fnOut).hinted, Val(fnOut).full)
         /\ SameSnap(Val(fnOut).hintedPoly, Val(fnOut).fullPoly)

\* C20 happens: the full scan selects a segment before the hint, the
\* window reaches back to it and leaves other segments out.
C20_Witness ==
    /\ fnOut # None
    /\ Len(fnIn.polyline) = 6
    /\ fnIn.segmentHint = Some(3)
    /\ fnIn.searchRadius = Some(1)
    /\ Val(fnOut).full.segmentIndex = 2
    /\ Val(fnOut).hinted.segmentIndex = 2

----------------------------------------------------------------------------
(* Claims C21 to C30 *)

\* The loaded sequences with every raw direction code replaced by Code(c).
Recoded(sequences, Code(_)) ==
    [v \in 1..Len(sequences) |->
        [sequences[v] EXCEPT !.sequence =
            [i \in 1..Len(sequences[v].sequence) |->
                [sequences[v].sequence[i] EXCEPT !.updowncd =
                    Code(sequences[v].sequence[i].updowncd)]]]]

\* The loaded sequences without the stops whose code is neither 0 nor 1.
RECURSIVE ValidStops(_, _)
ValidStops(sequence, i) ==
    IF i > Len(sequence) THEN << >>
    ELSE (IF sequence[i].updowncd \in {0, 1} THEN << sequence[i] >> ELSE << >>)
         \o ValidStops(sequence, i + 1)

Rejected(sequences) ==
    [v \in 1..Len(sequences) |-> [sequences[v] EXCEPT !.sequence = ValidStops(@, 1)]]

\* What a call answers on sequences whose codes were cleaned first.
CleanAnswers ==
    LET ToUp(c) == IF c = 0 THEN 0 ELSE 1
        ToDown(c) == IF c = 1 THEN 1 ELSE 0
        On(sequences) ==
            getDirection([fnIn.st EXCEPT !.sequences = sequences],
                         fnIn.nodeid, fnIn.nodeord, fnIn.routeid)
    IN  { On(Recoded(fnIn.st.sequences, ToUp)), On(Recoded(fnIn.st.sequences, ToDown)),
          On(Rejected(fnIn.st.sequences)) }

\* C21: the result is 0, 1 or unresolved, and it is the result on
\* sequences whose raw codes outside {0, 1} were normalized or rejected
\* before any comparison, the mixed-variant test included.
C21_CodesCleanedBeforeUse ==
    fnOut # None
      => /\ Val(fnOut) \in {None, Some(0), Some(1)}
         /\ Val(fnOut) \in CleanAnswers

\* The main effect of the current arguments snaps to the polyline.
SnapsToPolyline == props.snap /\ Len(props.polyline) >= 2

\* The step was an intermediate tick of the live animation.
IntermediateTick == obs.kind = "tick" /\ ~obs.ranDead /\ frames # {}

\* C22: at an intermediate tick of an animation along a direct two-point
\* path, the heading is the interpolation of the start and end headings
\* at the eased progress.
C22_DirectPathHeadingInterpolated ==
    (IntermediateTick /\ ~SnapsToPolyline /\ Len(refs.animationPath) = 2)
      => refs.currentAngle
           = interpolateAngle(refs.animationStartAngle, refs.animationEndAngle,
                              easeOutQuart(clock - refs.animationStartTime, props.duration),
                              1000)

\* The step is a tick of the live animation that is neither its first
\* tick nor its completion tick, and it emitted state.
LaterTickEmits ==
    /\ obs'.kind = "tick" /\ ~obs'.ranDead
    /\ obs'.ticks >= 2
    /\ obs'.emitted # << >>

\* C23: two intermediate emissions of consecutive ticks, neither the first
\* tick nor the completion tick, are at least the throttle interval apart.
C23_EmissionsThrottled ==
    [][(LaterTickEmits /\ obs.kind = "tick" /\ obs.ticks >= 2 /\ obs.emitted # << >>)
         => clock' - clock >= STATE_UPDATE_THROTTLE_MS]_vars

\* C23 amended: a tick after the first whose direct marker update
\* succeeded emits intermediate state only when the throttle interval has
\* passed since the last emission of the animation.
C23_EmissionsThrottledWithMarker ==
    [][(LaterTickEmits /\ props.marker = "ok")
         => clock' - refs.lastStateUpdate >= STATE_UPDATE_THROTTLE_MS]_vars

\* C23 happens: a tick wrote the marker and emitted nothing, because the
\* last emission of the animation was less than the interval ago.
C23_Witness ==
    /\ IntermediateTick
    /\ obs.ticks >= 2
    /\ props.marker = "ok"
    /\ obs.wrote # << >>
    /\ obs.emitted = << >>
    /\ refs.lastStateUpdate > refs.animationStartTime
    /\ clock - refs.lastStateUpdate < STATE_UPDATE_THROTTLE_MS

\* The step is a re-render that delivers a fix (the route's polyline and
\* reset key stay) whose raw position is the last raw target.
SameTargetArrives ==
    /\ obs'.renders = obs.renders + 1
    /\ props'.polyline = props.polyline
    /\ props'.resetKey = props.resetKey
    /\ props'.target = props.target
    /\ props'.target = refs.prevTarget

\* C24: a new fix at the last raw target starts no animation, sets the
\* rendered heading to the fix's heading in that step and leaves the
\* rendered position as it was.
C24_SameTargetHeadingOnly ==
    [][SameTargetArrives
         => /\ obs'.kind # "start"
            /\ frames' \subseteq frames
            /\ rendered'.angle = props'.angle
            /\ rendered'.position = rendered.position]_vars

\* C24 happens: a fix at the last raw target with another heading arrived
\* after a move; the heading was emitted and no frame is pending.
C24_Witness ==
    /\ obs.kind = "same"
    /\ obs.renders = 2
    /\ props.target = refs.prevTarget
    /\ props.target = <<28, 45>>
    /\ props.angle = 90
    /\ rendered.angle = 90
    /\ obs.emitted = << rendered >>
    /\ frames = {}

\* The start position, the polyline vertices s+1 to e (0-based) and the end
\* position, for the snapped start s and end e.
ForwardPath(polyline, s, e) ==
    << s.position >>
      \o [k \in 1..(e.segmentIndex - s.segmentIndex) |-> polyline[s.segmentIndex + k + 1]]
      \o << e.position >>

\* C25: the path of an animation started for a new fix on the route is
\* the snapped start, the vertices s+1 to e in order, and the snapped end.
C25_ForwardPathFollowsPolyline ==
    [][(NewFixOnRoute /\ obs'.kind = "start")
         => /\ StartSnapped.segmentIndex <= EndSnapped.segmentIndex
            /\ refs'.animationPath = ForwardPath(props'.polyline, StartSnapped, EndSnapped)]_vars

\* C25 happens: an animation from segment 0 to segment 2 of the polyline
\* was started; its path passes the two vertices in between.
C25_Witness ==
    /\ obs.kind = "start"
    /\ SnappingOn(props)
    /\ props.target = <<28, 45>>
    /\ refs.animationPath = << <<0, 25>>, <<0, 30>>, <<30, 30>>, <<30, 45>> >>

\* The point of segment i (1-based) of the path at the distance target,
\* in thousandths, from the path's start; d are the cumulative distances.
PointAlong(path, d, i, target) ==
    IF d[i + 1] = d[i] THEN path[i]
    ELSE << path[i][1] + (((path[i + 1][1] - path[i][1]) * (target - d[i] * 1000))
                              \div ((d[i + 1] - d[i]) * 1000)),
            path[i][2] + (((path[i + 1][2] - path[i][2]) * (target - d[i] * 1000))
                              \div ((d[i + 1] - d[i]) * 1000)) >>

\* C26: on a path of positive length, the position at progress p is the
\* point at the distance p * total along a segment whose cumulative
\* distances enclose that distance; p = 0 gives the first waypoint and
\* p = 1 the last.
C26_InterpolatesWithinSegment ==
    LET Holds(path, d, target, position) ==
            /\ \E i \in 1..(Len(path) - 1) :
                  /\ d[i] * 1000 <= target /\ target <= d[i + 1] * 1000
                  /\ position = PointAlong(path, d, i, target)
            /\ fnIn.progress = 0 => position = path[1]
            /\ fnIn.progress = 1000 => position = path[Len(path)]
        Of(pd) ==
            pd.totalDistance > 0
              => Holds(fnIn.path, pd.distances, pd.totalDistance * fnIn.progress,
                       Val(fnOut).position)
    IN  fnOut # None => Of(precomputePathDistances(fnIn.path))

\* C26 happens: half way along a path whose middle segment has no length.
C26_Witness ==
    /\ fnOut # None
    /\ fnIn.path = << <<0, 0>>, <<10, 0>>, <<10, 0>>, <<10, 20>> >>
    /\ fnIn.progress = 500
    /\ Val(fnOut).position = <<10, 5>>

\* C27: the cumulative distances have the length of the active path,
\* start at 0 and never decrease, and the total is their last element.
C27_DistancesMatchPath ==
    /\ Len(refs.pathDistances) = Len(refs.animationPath)
    /\ \A i \in 1..(Len(refs.pathDistances) - 1) :
          refs.pathDistances[i] <= refs.pathDistances[i + 1]
    /\ IF refs.pathDistances = << >> THEN refs.pathTotalDistance = 0
       ELSE /\ refs.pathDistances[1] = 0
            /\ refs.pathTotalDistance = refs.pathDistances[Len(refs.pathDistances)]

\* C27 happens: the animation along two vertices of the polyline is under
\* way, with segments of 5, 30 and 15 metres.
C27_Witness ==
    /\ obs.kind = "tick"
    /\ Len(refs.animationPath) = 4
    /\ refs.pathDistances = << 0, 5, 35, 50 >>
    /\ refs.pathTotalDistance = 50

\* C28: the hint of a stop is the hint for the turn index clamped to
\* [0, len-1] of the raw coordinate sequence, the index the split uses.
C28_HintUsesClampedTurnIndex ==
    (fnOut # None /\ fnIn.data.turn_idx # None /\ IsNumber(fnIn.data.turn_idx))
      => Val(fnOut).hint
           = getSegmentHint(Some(fnIn.coordIndex), fnIn.direction, Val(fnOut).lineLength,
                            Some(clampIndex(Val(fnIn.data.turn_idx),
                                            Len(fnIn.data.coordinates) - 1)),
                            FALSE)

\* C29: a geometry of at least 2 coordinates whose turn index is absent,
\* null or not a finite number comes back whole as the outbound polyline,
\* with no inbound polyline.
C29_NoTurnIndexAllOutbound ==
    (fnOut # None /\ fnIn.features > 0 /\ Len(fnIn.coordinates) >= 2
       /\ (fnIn.turn_idx = None \/ ~IsNumber(fnIn.turn_idx)))
      => /\ Val(fnOut).upPolyline = << toLatLngCoords(fnIn.coordinates) >>
         /\ Val(fnOut).downPolyline = << >>

\* The answer a projection onto a polyline of fewer than 2 points is to
\* give: the single point of the polyline, or the projected point when the
\* polyline is empty, at segment index 0.
DegenerateSnap(result, point, polyline) ==
    /\ result.segmentIndex = 0
    /\ result.position = IF Len(polyline) = 1 THEN polyline[1] ELSE point

\* C30: projecting a point onto a polyline of fewer than 2 points gives
\* the single point of the polyline, or the point itself when the polyline
\* is empty, with segment index 0, in geoUtils and in polyUtils alike.
C30_ShortPolylineDegenerates ==
    (fnOut # None /\ Len(fnIn.polyline) < 2)
      => /\ DegenerateSnap(Val(fnOut).full, fnIn.point, fnIn.polyline)
         /\ DegenerateSnap(Val(fnOut).hinted, fnIn.point, fnIn.polyline)
         /\ DegenerateSnap(Val(fnOut).fullPoly, fnIn.point, fnIn.polyline)
         /\ DegenerateSnap(Val(fnOut).hintedPoly, fnIn.point, fnIn.polyline)

(* Claims C31..C40 *)

\* The resolver gave no direction, or the projection onto the polyline of
\* its direction is not within the threshold.
NotTrusted ==
    \/ snapIn.apiDirection = None
    \/ \E d \in {0, 1} : snapIn.apiDirection = Some(d) /\ ~IsValidCandidate(ProjectionOn(d))

\* The result is the projection onto the polyline of direction d.
ResultIsProjection(d) ==
    /\ Val(snapOut).position = Val(ProjectionOn(d)).position
    /\ Val(snapOut).direction = Some(d)
    /\ Val(snapOut).segmentIndex = Val(ProjectionOn(d)).segmentIndex

\* C31: when the resolver's direction is unresolved or its projection is
\* not within 50 m, the result is the valid projection that is no farther
\* from the fix than the other when both are valid, and the single valid
\* projection when exactly one is valid, with the direction code of its
\* polyline.
C31_ClosestValidProjection ==
    (snapOut # None /\ NotTrusted)
      => \A d \in {0, 1} :
           (/\ IsValidCandidate(ProjectionOn(d))
            /\ (IsValidCandidate(ProjectionOn(1 - d))
                  => Val(ProjectionOn(d)).distSq < Val(ProjectionOn(1 - d)).distSq))
             => ResultIsProjection(d)

\* C31 happens: no resolver direction, both lines within 50 m, the down
\* line nearer, and the result on the down line.
C31_Witness ==
    /\ snapOut # None
    /\ snapIn.apiDirection = None
    /\ IsValidCandidate(ProjectionOn(1))
    /\ IsValidCandidate(ProjectionOn(0))
    /\ Val(ProjectionOn(0)).distSq < Val(ProjectionOn(1)).distSq
    /\ ResultIsProjection(0)

\* The candidates of a list whose variant is one of ids, in the list's order.
RECURSIVE OfVariants(_, _, _)
OfVariants(candidates, ids, i) ==
    IF i > Len(candidates) THEN << >>
    ELSE (IF candidates[i].routeid \in ids THEN << candidates[i] >> ELSE << >>)
         \o OfVariants(candidates, ids, i + 1)

\* The narrowed candidates, or all of them when narrowing leaves none.
NarrowedTo(candidates, ids) ==
    IF Len(OfVariants(candidates, ids, 1)) > 0 THEN OfVariants(candidates, ids, 1)
    ELSE candidates

\* C32: the pool of a call that has candidates is the candidates of the
\* given route-variant id, or without an id the candidates of the variants
\* that have reporting vehicles, and all candidates when narrowing leaves
\* none.
C32_PoolNarrowedToVariant ==
    (fnOut # None /\ Len(Val(fnOut).candidates) > 0)
      => Val(fnOut).pool
           = NarrowedTo(Val(fnOut).candidates,
                        IF IsSome(fnIn.routeid) THEN { Val(fnIn.routeid) }
                        ELSE fnIn.reporting)

\* The variant's sequence of the static data lists stops of both directions.
ListsBothDirections(routeid) ==
    \E i, j \in 1..Len(RouteDetails(routeid)) :
        RouteDetails(routeid)[i].updowncd # RouteDetails(routeid)[j].updowncd

\* The answer for a winning candidate of a variant of the route: its own
\* direction code, or for a single-direction variant of a route of exactly
\* two variants up for the first variant and down for the second.
AnswerFor(match, routeName) ==
    IF ~ListsBothDirections(match.routeid) /\ Len(RouteMap(routeName)) = 2
    THEN (IF match.routeid = RouteMap(routeName)[1] THEN Some(1) ELSE Some(0))
    ELSE Some(match.updowncd)

\* C33: the result of a call that reached a winning candidate is the
\* candidate's own direction code when its variant lists stops of both
\* directions or the route has another number of variants than two, and
\* the fallback mapping (first variant up, second down) when the variant
\* is single-direction and the route has exactly two variants.
C33_FallbackForSingleDirection ==
    (dirOut # None /\ Val(dirOut).match # None)
      => Val(dirOut).result = AnswerFor(Val(Val(dirOut).match), Val(dirFn.of))

\* The failed requests of a log.
Failures(log) == { k \in 1..Len(log) : log[k].kind # "ok" }

CompletedAtEnd(g) ==
    /\ obs.kind = "complete"
    /\ obs.gen = g
    /\ frames = {}
    /\ rendered.position = refs.animationEndPos

\* Animation g was superseded: a later animation started, the position
\* was set at once (a backward jump teleported, or the polyline arrived and
\* the target was snapped onto it), a reset acted, or the component
\* unmounted.
Superseded(g) ==
    \/ obs.gen > g
    \/ obs.kind \in {"teleport", "first"}
    \/ obs.reset
    \/ mounted = "unmounted"

\* C35: when the browser runs every pending frame, an animation that has
\* started completes at its recorded end position, unless a new animation,
\* a teleport, a reset or the unmount supersedes it first.
C35_StartedAnimationCompletes ==
    \A g \in 1..(MaxRenders + 1) :
        (obs.live = g /\ frames # {}) ~> (CompletedAtEnd(g) \/ Superseded(g))

\* C36: while the component is mounted and no frame callback is pending,
\* the position of the last emitted state is the tracked current position.
C36_IdleEmittedIsCurrent ==
    (mounted = "mounted" /\ frames = {}) => rendered.position = refs.currentPos

\* Request r leaves its phase in this step.
Leaves(r, phase) ==
    /\ r \in inflight
    /\ r.phase = phase
    /\ \A q \in inflight' : q.id = r.id => q.phase # phase

\* C37: a fetch that was in flight when its key was deleted or the cache
\* cleared stores nothing when it settles, and its completion removes no
\* pending entry of a newer request for the key.
C37_ClearedFetchStaysOut ==
    [][ \A r \in inflight :
          r.cleared =>
            /\ Leaves(r, "fetching") => cache' = cache
            /\ (Leaves(r, "finally") /\ r.key \in DOMAIN pendingRequests
                   /\ pendingRequests[r.key] # r.id)
                 => pendingRequests' = pendingRequests ]_vars

\* The step is a getOrFetch call for key k.
GetOrFetchOf(k) == cobs'.op \in {"hit", "join", "fetch"} /\ cobs'.key = Some(k)

\* C38: when the producer of a request rejects, the step stores nothing;
\* a caller that finds the key pending is given the promise of a request
\* in flight for that key; when the promise of a rejected request settles
\* (for all that hold it) no pending entry is left for its key and nothing
\* is stored; and a getOrFetch for a key that is neither cached nor
\* pending invokes the producer.
C38_RejectionClearsPending ==
    [][ /\ cobs'.op = "rejected" => cache' = cache
        /\ cobs'.op = "join"
              => \E r \in inflight' : /\ cobs'.joined = Some(r.id)
                                       /\ cobs'.key = Some(r.key)
        /\ \A r \in inflight :
              (Leaves(r, "finally") /\ r.rejected)
                => /\ r.key \notin DOMAIN pendingRequests'
                   /\ cache' = cache
                   /\ cobs'.settled # None
                   /\ Val(cobs'.settled).key = r.key
                   /\ Val(cobs'.settled).rejected
        /\ \A k \in CacheKeys :
              (GetOrFetchOf(k) /\ k \notin DOMAIN cache /\ k \notin DOMAIN pendingRequests)
                => /\ cobs'.op = "fetch"
                   /\ \E r \in inflight' \ inflight : r.key = k /\ r.phase = "fetching" ]_vars

\* C38 happens: the producer of a request has rejected, its promise has
\* settled, the key is neither cached nor pending, and the request was not
\* cut off by a delete or a clear.
C38_Witness ==
    /\ cobs.op = "finally"
    /\ cobs.settled # None
    /\ Val(cobs.settled).rejected
    /\ ~Val(cobs.settled).cleared
    /\ Val(cobs.settled).key \notin DOMAIN pendingRequests
    /\ Val(cobs.settled).key \notin DOMAIN cache

\* The intervals and the listeners of one type the page holds for a route.
TimersOf(s, r) == { t \in s.timers : t.route = r }
ListenersOf(s, r, type) == { l \in s.listeners : l.route = r /\ l.type = type }

\* C39: after any calls of startPolling and stopPolling every route has at
\* most one interval and one listener of each type; a startPolling for a
\* route that is polling adds no interval and calls no fetch; after a
\* stopPolling the route has no interval and no listener.
C39_OneIntervalPerRoute ==
    fnOut # None =>
      /\ \A r \in TimerRoutes :
            /\ Cardinality(TimersOf(Val(fnOut), r)) <= 1
            /\ Cardinality(ListenersOf(Val(fnOut), r, "visibilitychange")) <= 1
            /\ Cardinality(ListenersOf(Val(fnOut), r, "pageshow")) <= 1
      /\ (Val(fnOut).last.op = "start" /\ Val(fnOut).last.wasPolling)
           => /\ ~Val(fnOut).last.fetched
              /\ Cardinality(TimersOf(Val(fnOut), Val(fnOut).last.route)) = 1
      /\ Val(fnOut).last.op = "stop"
           => /\ TimersOf(Val(fnOut), Val(fnOut).last.route) = {}
              /\ \A l \in Val(fnOut).listeners : l.route # Val(fnOut).last.route

\* C39 happens: startPolling was called for a route that was polling, after
\* an earlier stop and restart of it, and the route has its one interval.
C39_Witness ==
    /\ fnOut # None
    /\ Val(fnOut).last.op = "start"
    /\ Val(fnOut).last.wasPolling
    /\ Val(fnOut).nextHandle = 3
    /\ TimersOf(Val(fnOut), Val(fnOut).last.route) = { [id |-> 2, route |-> Val(fnOut).last.route] }

\* The poll that completed last failed: the route map was not loaded, the
\* route is not in it, or the fetch of every variant was rejected.
PollFailed(last) ==
    \/ last.routeMap # "ok"
    \/ last.route # "A"
    \/ \A i \in 1..2 : last.results[i] = None

\* The vehicles of the fulfilled variant fetches, in the order of the variants.
VehiclesOf(results) ==
    (IF results[1] = None THEN << >>
     ELSE [i \in 1..Len(Val(results[1])) |-> Val(results[1])[i].vehicleno])
    \o (IF results[2] = None THEN << >>
        ELSE [i \in 1..Len(Val(results[2])) |-> Val(results[2])[i].vehicleno])

\* The calls of log are one call to each listener, in order.
CallsEach(log, listeners, channel) ==
    /\ Len(log) = (IF listeners = None THEN 0 ELSE Len(Val(listeners)))
    /\ \A i \in 1..Len(log) : log[i].channel = channel /\ log[i].listener = Val(listeners)[i]

DataCount(s) ==
    IF s.dataListeners[s.last.route] = None THEN 0 ELSE Len(Val(s.dataListeners[s.last.route]))

\* C40: a completed poll calls each data listener of the route and then
\* each error listener; after a success the data is the merged bus list
\* and the error is null for buses and ERR:NONE_RUNNING for none; after a
\* failure the cache holds the empty list, the data is the empty list and
\* the error is an error code.
C40_PollNotifiesDataThenError ==
    (fnOut # None /\ Val(fnOut).last.op = "poll") =>
      /\ CallsEach(SubSeq(Val(fnOut).log, 1, DataCount(Val(fnOut))),
                   Val(fnOut).dataListeners[Val(fnOut).last.route], "data")
      /\ CallsEach(SubSeq(Val(fnOut).log, DataCount(Val(fnOut)) + 1, Len(Val(fnOut).log)),
                   Val(fnOut).errorListeners[Val(fnOut).last.route], "error")
      /\ Val(fnOut).cache[Val(fnOut).last.route] # None
      /\ \A i \in 1..Len(Val(fnOut).log) :
            IF Val(fnOut).log[i].channel = "data"
            THEN Val(fnOut).log[i].data = Val(Val(fnOut).cache[Val(fnOut).last.route])
            ELSE IF PollFailed(Val(fnOut).last)
                 THEN Val(fnOut).log[i].error \in VALID_ERROR_CODES
                 ELSE Val(fnOut).log[i].error =
                        (IF VehiclesOf(Val(fnOut).last.results) = << >>
                         THEN "ERR:NONE_RUNNING" ELSE "null")
      /\ IF PollFailed(Val(fnOut).last)
         THEN Val(Val(fnOut).cache[Val(fnOut).last.route]) = << >>
         ELSE /\ Len(Val(Val(fnOut).cache[Val(fnOut).last.route]))
                   = Len(VehiclesOf(Val(fnOut).last.results))
              /\ \A i \in 1..Len(VehiclesOf(Val(fnOut).last.results)) :
                    /\ Val(Val(fnOut).cache[Val(fnOut).last.route])[i].vehicleno
                         = VehiclesOf(Val(fnOut).last.results)[i]
                    /\ Val(Val(fnOut).cache[Val(fnOut).last.route])[i].routeid \in {"V1", "V2", "V9"}

\* C40 happens: a poll of a route with two subscribers succeeded with no
\* bus although one variant's fetch was rejected, and the four callbacks
\* were made.
C40_Witness ==
    /\ fnOut # None
    /\ Val(fnOut).last.op = "poll"
    /\ Val(fnOut).last.routeMap = "ok"
    /\ Val(fnOut).last.results = << None, Some(<< >>) >>
    /\ Val(fnOut).dataListeners["A"] = Some(<< 2, 1 >>)
    /\ Len(Val(fnOut).log) = 4
    /\ Val(fnOut).log[4].error = "ERR:NONE_RUNNING"
============================================================================
